---------------------------- MODULE Spec2Model ----------------------------
(***************************************************************************)
(* Model of the GloryPicks signal aggregation engine                       *)
(* (backend/app/engine, backend/app/indicators).                           *)
(*                                                                         *)
(* Numbers.  Strengths, bonuses and probabilities are Python floats in the  *)
(* source, and int() of a sum of them decides the final strength, so the   *)
(* model computes them as the source does: in IEEE-754 binary64, with      *)
(* round-to-nearest-even after every operation (the operators D...).  A    *)
(* multiplier of the phase-1 table is held in percent and turned into its  *)
(* double where it is used; a time of day is held in seconds               *)
(* (KillZoneDetector) or minutes (ICTPhase1Enhancements, which drops the   *)
(* seconds itself).  Candle prices are whole numbers; a test of a price    *)
(* against a percentage of another is decided on the exact integers where  *)
(* they differ and on the doubles where they are equal.                    *)
(***************************************************************************)
EXTENDS Integers, Sequences, FiniteSets, TLC

VARIABLES
    \* ---- kill-zone classifiers (pure functions of a timestamp) ----
    kz_pc,          \* "input" | the name of the function that was applied
    ts,             \* the Unix timestamp (seconds) handed to the classifier
    sig_strength,   \* the signal strength handed to should_trade_signal
    p1_info,        \* result of ICTPhase1Enhancements.get_kill_zone_info
    cur_info,       \* result of KillZoneDetector.get_current_kill_zone
    kz_today,       \* the dates datetime.today() gave to the reads of that call
    st_result,      \* result of KillZoneDetector.should_trade_signal
    \* ---- SignalEngine.evaluate_timeframe on one candle series ----
    ev_pc,          \* "input" | "done"
    ev_n,           \* len(candles)
    ev_ind,         \* the indicator values at the last index (idx = -1)
    ev_result,      \* the returned (mini_signal, strength_contribution, rationale)
    \* ---- SignalEngine.generate_signal ----
    eng_pc,         \* "request" (arguments handed over) | "done"
    rq,             \* the arguments of the call and the wall-clock time
    out,            \* what the call produced: a SignalResponse or an exception
    agg,            \* what SignalEngine.aggregate_signals produced for the same series
    \* ---- ICTStrategies (one detector instance) ----
    order_blocks,      \* self.order_blocks
    fair_value_gaps,   \* self.fair_value_gaps
    market_structure,  \* self.market_structure
    ict_calls,         \* calls of analyze_candles made so far
    ict_last,          \* the last call: its candles, how it ended, what it raised
    \* ---- Indicators (pure functions of a price list) ----
    ind_pc,            \* "input" | the name of the function that was applied
    ind_prices,        \* the price list
    ind_dtype,         \* "int64" (a list of ints) | "float64" (a list of floats)
    ind_args,          \* the period arguments of the call
    ind_result,        \* the returned lists, and for rsi its two smoothed averages
    \* ---- one call of a function that keeps no state ----
    fn_pc,             \* "input" | the name of the function that was applied
    fn_in,             \* the arguments of the call
    fn_out,            \* what the call returned
    \* ---- SMCStrategies (one detector instance) ----
    liquidity_pools,   \* self.liquidity_pools
    inducements,       \* self.inducements
    bpr_zones,         \* self.bpr_zones
    smc_calls,         \* calls of analyze_candles made so far
    smc_last,          \* the last call: its candles, how it ended, what it raised
    \* ---- requests served by the one engine of the process ----
    rp_pc,             \* "idle" | "serving"
    rp_calls           \* the calls made on the engine so far, in order: their
                       \* arguments and what they produced

kz_vars == <<kz_pc, ts, sig_strength, p1_info, cur_info, kz_today, st_result>>

ev_vars == <<ev_pc, ev_n, ev_ind, ev_result>>

eng_vars == <<eng_pc, rq, out, agg>>

ict_vars == <<order_blocks, fair_value_gaps, market_structure, ict_calls, ict_last>>

ind_vars == <<ind_pc, ind_prices, ind_dtype, ind_args, ind_result>>

fn_vars == <<fn_pc, fn_in, fn_out>>

smc_vars == <<liquidity_pools, inducements, bpr_zones, smc_calls, smc_last>>

rp_vars == <<rp_pc, rp_calls>>

vars == <<kz_vars, ev_vars, eng_vars, ict_vars, ind_vars, fn_vars, smc_vars, rp_vars>>

(***************************************************************************)
(* Small helpers.                                                          *)
(***************************************************************************)
Min(a, b) == IF a <= b THEN a ELSE b

Max(a, b) == IF a >= b THEN a ELSE b

\* Python's int(x / d) for an integer numerator: truncation toward zero.
TruncDiv(x, d) == IF x >= 0 THEN x \div d ELSE -((-x) \div d)

(***************************************************************************)
(* Python floats: IEEE-754 binary64.                                       *)
(*                                                                         *)
(* A double is [sgn, man, exp], its value sgn * man * 2^exp: sgn is 1, -1  *)
(* or 0 (zero), man is the 53-bit significand (2^52 <= man < 2^53) as four *)
(* base-2^14 digits, least significant first.  Every operation computes    *)
(* the exact result on natural numbers held as digit lists and rounds it   *)
(* to 53 bits, ties to even.  No value of the engine comes near the        *)
(* subnormal or the overflow range, and the sign of a zero is not kept.    *)
(***************************************************************************)
Format == [digit_bits |-> 14, man_bits |-> 53]

DigitBits == Format.digit_bits

ManBits == Format.man_bits

Base == 2^DigitBits

Abs(x) == IF x >= 0 THEN x ELSE -x

\* A value that is read more than once is computed once, as the one
\* element of a set: CHOOSE r \in {e : v \in {value}} : TRUE is e with v
\* standing for the value.
\* Natural numbers: digit i of a, 0 beyond its length.
Digit(a, i) == IF i >= 1 /\ i <= Len(a) THEN a[i] ELSE 0

\* The digits of a list of column sums, carries (or borrows) passed upward.
RECURSIVE Carry(_, _, _)
Carry(cols, i, c) ==
    IF i > Len(cols) /\ c = 0 THEN <<>>
    ELSE CHOOSE r \in {<<v % Base>> \o Carry(cols, i + 1, v \div Base) : v \in {Digit(cols, i) + c}} : TRUE

NatAdd(a, b) == Carry([i \in 1..Max(Len(a), Len(b)) |-> Digit(a, i) + Digit(b, i)], 1, 0)

\* a - b for a >= b.
NatSub(a, b) == Carry([i \in 1..Max(Len(a), Len(b)) |-> Digit(a, i) - Digit(b, i)], 1, 0)

RECURSIVE ColSum(_, _, _, _)
ColSum(a, b, k, i) ==
    IF i > Len(a) THEN 0 ELSE a[i] * Digit(b, k + 1 - i) + ColSum(a, b, k, i + 1)

NatMul(a, b) == Carry([k \in 1..(Len(a) + Len(b) - 1) |-> ColSum(a, b, k, 1)], 1, 0)

\* The highest index of a set of indices, 0 for the empty set.
Highest(indices) == IF indices = {} THEN 0 ELSE CHOOSE i \in indices : \A j \in indices : j <= i

NatCmp(a, b) ==
    CHOOSE r \in {IF h = 0 THEN 0 ELSE IF Digit(a, h) < Digit(b, h) THEN -1 ELSE 1
                     : h \in {Highest({i \in 1..Max(Len(a), Len(b)) : Digit(a, i) # Digit(b, i)})}} : TRUE

BitLen(a) ==
    CHOOSE r \in {IF h = 0 THEN 0
                  ELSE (h - 1) * DigitBits + (CHOOSE k \in 1..DigitBits : 2^(k - 1) <= a[h] /\ a[h] < 2^k)
                     : h \in {Highest({i \in 1..Len(a) : a[i] # 0})}} : TRUE

\* floor(a / 2^s) and a * 2^s.
Shr(a, s) ==
    [i \in 1..Max(Len(a) - (s \div DigitBits), 0) |->
        (Digit(a, i + (s \div DigitBits)) \div 2^(s % DigitBits))
            + (Digit(a, i + (s \div DigitBits) + 1) % 2^(s % DigitBits)) * 2^(DigitBits - (s % DigitBits))]

Shl(a, s) ==
    [i \in 1..(Len(a) + (s \div DigitBits) + 1) |->
        (Digit(a, i - (s \div DigitBits)) % 2^(DigitBits - (s % DigitBits))) * 2^(s % DigitBits)
            + (Digit(a, i - (s \div DigitBits) - 1) \div 2^(DigitBits - (s % DigitBits)))]

BitAt(a, k) == (Digit(a, (k \div DigitBits) + 1) \div 2^(k % DigitBits)) % 2

\* The k lowest bits of a are all 0.
LowZero(a, k) ==
    /\ \A i \in 1..(k \div DigitBits) : Digit(a, i) = 0
    /\ Digit(a, (k \div DigitBits) + 1) % 2^(k % DigitBits) = 0

Man(a) == [i \in 1..4 |-> Digit(a, i)]

DZero == [sgn |-> 0, man |-> <<0, 0, 0, 0>>, exp |-> 0]

\* The double sgn * r * 2^e for r of 53 or, after a carry out of the
\* rounding, 54 bits.
Normal(sgn, r, e) ==
    IF BitLen(r) > ManBits THEN [sgn |-> sgn, man |-> Man(Shr(r, 1)), exp |-> e + 1]
    ELSE [sgn |-> sgn, man |-> Man(r), exp |-> e]

\* n of len > 53 bits cut to its 53 highest bits q: round to nearest, ties
\* to even.
Nearest(n, len, sticky, q) ==
    IF /\ BitAt(n, len - ManBits - 1) = 1
       /\ (~LowZero(n, len - ManBits - 1) \/ sticky \/ q[1] % 2 = 1)
    THEN NatAdd(q, <<1>>)
    ELSE q

\* n of len > 53 bits rounded to 53 bits.
Rounded(n, len, sticky) ==
    CHOOSE r \in {Nearest(n, len, sticky, q) : q \in {Shr(n, len - ManBits)}} : TRUE

\* The double nearest to sgn * n * 2^e (plus a little more, if sticky) for
\* n of len bits.
RoundLen(sgn, n, e, sticky, len) ==
    IF len = 0 THEN DZero
    ELSE IF len <= ManBits
        THEN [sgn |-> sgn, man |-> Man(Shl(n, ManBits - len)), exp |-> e - (ManBits - len)]
    ELSE CHOOSE d \in {Normal(sgn, r, e + len - ManBits) : r \in {Rounded(n, len, sticky)}} : TRUE

RoundNat(sgn, n, e, sticky) ==
    CHOOSE d \in {RoundLen(sgn, n, e, sticky, len) : len \in {BitLen(n)}} : TRUE

Round(sgn, n, e, sticky) == CHOOSE r \in {RoundNat(sgn, v, e, sticky) : v \in {n}} : TRUE

\* float(k)
DFromInt(k) == Round(IF k < 0 THEN -1 ELSE 1, <<Abs(k) % Base, (Abs(k) \div Base) % Base, Abs(k) \div (Base * Base)>>, 0, FALSE)

DNeg(x) == [x EXCEPT !.sgn = -x.sgn]

\* big + small for two doubles other than 0 with big.exp >= small.exp: a is
\* big's significand at small's exponent, and cmp tells which of the two is
\* larger in magnitude (2: the signs agree and the magnitudes add).
AlignedAt(big, small, a, cmp) ==
    IF cmp = 0 THEN DZero
    ELSE Round(IF cmp > 0 THEN big.sgn ELSE small.sgn,
               IF cmp = 2 THEN NatAdd(a, small.man)
               ELSE IF cmp > 0 THEN NatSub(a, small.man)
               ELSE NatSub(small.man, a),
               small.exp, FALSE)

Aligned(big, small) ==
    CHOOSE r \in
        {CHOOSE d \in {AlignedAt(big, small, a, cmp)
                          : cmp \in {IF big.sgn = small.sgn THEN 2 ELSE NatCmp(a, small.man)}} : TRUE
            : a \in {Shl(big.man, big.exp - small.exp)}} : TRUE

\* x + y
DAddV(x, y) ==
    IF x.sgn = 0 THEN y
    ELSE IF y.sgn = 0 THEN x
    ELSE IF Abs(x.exp - y.exp) > ManBits + 3 THEN (IF x.exp >= y.exp THEN x ELSE y)
    ELSE Aligned(IF x.exp >= y.exp THEN x ELSE y, IF x.exp >= y.exp THEN y ELSE x)

DAdd(x, y) == CHOOSE r \in {DAddV(a, b) : a \in {x}, b \in {y}} : TRUE

\* x - y
DSub(x, y) == DAdd(x, DNeg(y))

\* x * y
DMulV(x, y) ==
    IF x.sgn = 0 \/ y.sgn = 0 THEN DZero
    ELSE Round(x.sgn * y.sgn, NatMul(x.man, y.man), x.exp + y.exp, FALSE)

DMul(x, y) == CHOOSE r \in {DMulV(a, b) : a \in {x}, b \in {y}} : TRUE

\* a divided by a small d, from the top digit down.
RECURSIVE ShortDiv(_, _, _, _)
ShortDiv(a, d, i, rem) ==
    IF i = 0 THEN [q |-> <<>>, rem |-> rem]
    ELSE CHOOSE r \in {[q |-> Append(lower.q, (rem * Base + a[i]) \div d), rem |-> lower.rem]
                         : lower \in {ShortDiv(a, d, i - 1, (rem * Base + a[i]) % d)}} : TRUE

DivNat(a, d) == CHOOSE r \in {ShortDiv(n, d, Len(n), 0) : n \in {a}} : TRUE

\* x / d for a whole number d, 0 < d < 2^14.
DDivIntV(x, d) ==
    IF x.sgn = 0 THEN DZero
    ELSE CHOOSE r \in {Round(x.sgn, qr.q, x.exp - 2 * DigitBits, qr.rem # 0)
                         : qr \in {DivNat(Shl(x.man, 2 * DigitBits), d)}} : TRUE

DDivInt(x, d) == CHOOSE r \in {DDivIntV(a, d) : a \in {x}} : TRUE

\* The literal n/d written in decimal (0.35 is D(35, 100)): the double
\* nearest to it.
D(n, d) == DDivInt(DFromInt(n), d)

\* -1, 0, 1 as x is below, equal to, above y.
DCmp(x, y) ==
    IF x.sgn # y.sgn THEN (IF x.sgn < y.sgn THEN -1 ELSE 1)
    ELSE IF x.sgn = 0 THEN 0
    ELSE IF x.exp # y.exp THEN (IF x.exp < y.exp THEN -x.sgn ELSE x.sgn)
    ELSE x.sgn * NatCmp(x.man, y.man)

DLt(x, y) == DCmp(x, y) < 0

DLe(x, y) == DCmp(x, y) <= 0

\* min(x, y) and max(x, y) with Python's choice of the first on a tie.
DMin(x, y) == IF DLt(y, x) THEN y ELSE x

DMax(x, y) == IF DLt(x, y) THEN y ELSE x

\* int(x): truncation toward zero.
DInt(x) ==
    IF x.sgn = 0 \/ -x.exp >= ManBits THEN 0
    ELSE CHOOSE k \in {x.sgn * (Digit(q, 1) + Digit(q, 2) * Base + Digit(q, 3) * Base * Base)
                         : q \in {Shr(x.man, -x.exp)}} : TRUE

\* ---- a price against a percentage of another ----
\* x/ux against the product (p/up) * n/d for whole numbers x, p and a
\* literal n/d (0.999 is n = 999, d = 1000): -1, 0, 1 as x/ux is below, at,
\* above the product the source computes.  The double product lies within
\* p * 2^-51 of the exact one, which is a multiple of 1/(up * d): where
\* x/ux differs from the exact product the doubles decide as the integers
\* do, and where the two are equal the doubles are computed.
CmpPct(x, ux, p, up, n, d) ==
    IF x * up * d # p * n * ux
    THEN (IF x * up * d < p * n * ux THEN -1 ELSE 1)
    ELSE DCmp(DDivInt(DFromInt(x), ux), DMul(DDivInt(DFromInt(p), up), D(n, d)))

\* x > p * n/d
ExceedsPct(x, p, n, d) == CmpPct(x, 1, p, 1, n, d) > 0

\* x < p * n/d
BelowPct(x, p, n, d) == CmpPct(x, 1, p, 1, n, d) < 0

(***************************************************************************)
(* ICTPhase1Enhancements.get_kill_zone_info  (UTC table, with multipliers) *)
(***************************************************************************)
\* settings.ENABLE_KILL_ZONES (its default).
ENABLE_KILL_ZONES == TRUE

\* datetime.fromtimestamp(timestamp, tz=utc): hour and minute of the day.
UtcHour(t) == (t \div 3600) % 24

UtcMinute(t) == (t \div 60) % 60

\* time_decimal = hour + minute / 60.0, held in minutes.
time_decimal(t) == UtcHour(t) * 60 + UtcMinute(t)

\* A table whose Asian session (00:00-08:00) is looked up before London open.
kill_zones_asian_first ==
    << [zone |-> "asian_session", start |-> 0,    end |-> 480,  multiplier |-> 110],
       [zone |-> "london_open",   start |-> 420,  end |-> 600,  multiplier |-> 130],
       [zone |-> "ny_open",       start |-> 720,  end |-> 900,  multiplier |-> 125],
       [zone |-> "london_close",  start |-> 900,  end |-> 1020, multiplier |-> 115],
       [zone |-> "ny_close",      start |-> 1140, end |-> 1260, multiplier |-> 105] >>

\* The dict kill_zones in its insertion order; start/end in minutes of the
\* UTC day, multiplier in percent.
kill_zones ==
    << [zone |-> "london_open",   start |-> 420,  end |-> 600,  multiplier |-> 130],
       [zone |-> "ny_open",       start |-> 720,  end |-> 900,  multiplier |-> 125],
       [zone |-> "london_close",  start |-> 900,  end |-> 1020, multiplier |-> 115],
       [zone |-> "asian_session", start |-> 0,    end |-> 480,  multiplier |-> 110],
       [zone |-> "ny_close",      start |-> 1140, end |-> 1260, multiplier |-> 105] >>

P1OffHours ==
    [zone_type |-> "off_hours", is_active |-> FALSE, strength_multiplier |-> 100,
     start_hour |-> 0, end_hour |-> 24]

\* The first zone of the table with start <= time_decimal < end.
get_kill_zone_info(t) ==
    IF ~ENABLE_KILL_ZONES THEN P1OffHours
    ELSE LET td  == time_decimal(t)
             hit == {i \in 1..Len(kill_zones) :
                        kill_zones[i].start <= td /\ td < kill_zones[i].end}
         IN  IF hit = {} THEN P1OffHours
             ELSE LET i == CHOOSE j \in hit : \A k \in hit : j <= k
                  IN  [zone_type |-> kill_zones[i].zone, is_active |-> TRUE,
                       strength_multiplier |-> kill_zones[i].multiplier,
                       start_hour |-> kill_zones[i].start \div 60,
                       end_hour |-> kill_zones[i].end \div 60]

(***************************************************************************)
(* KillZoneDetector  (fixed UTC-5 table, second resolution)                *)
(***************************************************************************)
\* The dict KILL_ZONES in its insertion order; times in seconds of the day.
KILL_ZONES ==
    << [zone |-> "london_kill_zone", start |-> 3 * 3600,         end |-> 5 * 3600],
       [zone |-> "ny_kill_zone",     start |-> 9 * 3600 + 1800,  end |-> 11 * 3600 + 1800],
       [zone |-> "london_close",     start |-> 11 * 3600,        end |-> 12 * 3600],
       [zone |-> "asian_session",    start |-> 20 * 3600,        end |-> 0] >>

\* dt.astimezone(timezone(timedelta(hours=-5))).time(), in seconds of the day.
est_time(t) == (t - 5 * 3600) % 86400

_is_time_in_window(current, start, end) ==
    IF start < end THEN start <= current /\ current <= end
    ELSE current >= start \/ current <= end

_get_session_type(current) ==
    IF current < 9 * 3600 + 1800 THEN "pre_market"
    ELSE IF current < 10 * 3600 THEN "market_open"
    ELSE IF current < 16 * 3600 THEN "market_hours"
    ELSE IF current < 20 * 3600 THEN "market_close"
    ELSE "after_hours"

\* datetime.today(): the date of the host's clock, read anew at every call
\* (lines 128, 140, 204, 208).  The dates a call reads are held as day
\* numbers counted from the first one, in the order of the reads.  The
\* host's clock runs forward and a call takes less than a day, so local
\* midnight passes at most once while it runs: the first k reads give the
\* day 0 and the later ones the day 1 (k = n: the date does not change).
DatesRead(n) == {[i \in 1..n |-> IF i > k THEN 1 ELSE 0] : k \in 1..n}

\* datetime.combine(date, time), in seconds counted from the first date.
combine(date, time) == date * 86400 + time

\* Reads of datetime.today() in one call of _get_next_kill_zone: one for now
\* (line 204) and one for the start of each zone (line 208).
NextZoneReads == 1 + Len(KILL_ZONES)

\* Reads of datetime.today() in one call of _create_kill_zone_info, and so
\* of get_current_kill_zone: lines 128 and 140 in an active zone, line 128
\* and the reads of _get_next_kill_zone otherwise.
MaxReads == 1 + NextZoneReads

\* Minutes until the soonest zone start (a start at or before now is moved
\* on by a day); today[1] is the date read for now, today[1 + i] the date
\* read for the start of the i-th zone.  min() keeps the first of equals.
_get_next_kill_zone(current, today) ==
    LET now == combine(today[1], current)
        minutes_until(i) ==
            LET start_dt == combine(today[1 + i], KILL_ZONES[i].start)
            IN  IF start_dt <= now THEN TruncDiv(start_dt + 86400 - now, 60)
                ELSE TruncDiv(start_dt - now, 60)
        best == CHOOSE i \in 1..Len(KILL_ZONES) :
                    \A k \in 1..Len(KILL_ZONES) :
                        \/ minutes_until(i) < minutes_until(k)
                        \/ (minutes_until(i) = minutes_until(k) /\ i <= k)
    IN  [zone |-> KILL_ZONES[best].zone, minutes |-> minutes_until(best)]

ZoneEntry(zone_type) == CHOOSE i \in 1..Len(KILL_ZONES) : KILL_ZONES[i].zone = zone_type

\* None is held as -1 in time_until_next / time_remaining.  today[1] is the
\* date read at line 128; today[2] is the date read at line 140 in an
\* active zone, and the dates from today[2] on are those read by
\* _get_next_kill_zone otherwise.
_create_kill_zone_info(zone_type, is_active, current, today) ==
    IF is_active THEN
        LET z      == KILL_ZONES[ZoneEntry(zone_type)]
            now    == combine(today[1], current)
            end_dt == IF z.end < z.start THEN combine(today[2], z.end) + 86400
                      ELSE combine(today[2], z.end)
        IN  [zone_type |-> zone_type, is_active |-> TRUE,
             time_until_next |-> -1,
             time_remaining |-> TruncDiv(end_dt - now, 60),
             session |-> _get_session_type(current),
             optimal_for_entries |-> zone_type # "asian_session",
             volatility_expected |->
                 IF zone_type \in {"london_kill_zone", "ny_kill_zone"} THEN "high"
                 ELSE IF zone_type = "london_close" THEN "medium" ELSE "low"]
    ELSE
        [zone_type |-> zone_type, is_active |-> FALSE,
         time_until_next |-> _get_next_kill_zone(current, Tail(today)).minutes,
         time_remaining |-> -1,
         session |-> _get_session_type(current),
         optimal_for_entries |-> FALSE,
         volatility_expected |-> "low"]

\* today holds the dates the call reads from the host's clock, in order.
get_current_kill_zone(t, today) ==
    LET current == est_time(t)
        hit == {i \in 1..Len(KILL_ZONES) :
                   _is_time_in_window(current, KILL_ZONES[i].start, KILL_ZONES[i].end)}
    IN  IF hit = {} THEN _create_kill_zone_info("off_hours", FALSE, current, today)
        ELSE LET i == CHOOSE j \in hit : \A k \in hit : j <= k
             IN  _create_kill_zone_info(KILL_ZONES[i].zone, TRUE, current, today)

\* A decision table in which the rule for a weak signal inside a kill zone
\* is missing, so that the final default answers for it.
should_trade_signal_default_allows(t, today, strength) ==
    LET info == get_current_kill_zone(t, today)
    IN  IF info.is_active /\ strength >= 70 THEN [trade |-> TRUE, rule |-> "high_strength"]
        ELSE IF info.is_active /\ info.optimal_for_entries /\ strength >= 50
             THEN [trade |-> TRUE, rule |-> "optimal_moderate"]
        ELSE IF info.zone_type = "asian_session" THEN [trade |-> FALSE, rule |-> "asian"]
        ELSE IF info.zone_type = "off_hours"
             THEN IF strength >= 80 THEN [trade |-> TRUE, rule |-> "off_hours_exception"]
                  ELSE [trade |-> FALSE, rule |-> "off_hours_wait"]
        ELSE [trade |-> TRUE, rule |-> "default"]

\* should_trade_signal: (should_trade, reason); the reason is held as the
\* name of the rule that answered.  today holds the dates read by its call
\* of get_current_kill_zone.
should_trade_signal(t, today, strength) ==
    LET info == get_current_kill_zone(t, today)
    IN  IF info.is_active /\ strength >= 70 THEN [trade |-> TRUE, rule |-> "high_strength"]
        ELSE IF info.is_active /\ info.optimal_for_entries /\ strength >= 50
             THEN [trade |-> TRUE, rule |-> "optimal_moderate"]
        ELSE IF info.zone_type = "asian_session" THEN [trade |-> FALSE, rule |-> "asian"]
        ELSE IF info.zone_type = "off_hours"
             THEN IF strength >= 80 THEN [trade |-> TRUE, rule |-> "off_hours_exception"]
                  ELSE [trade |-> FALSE, rule |-> "off_hours_wait"]
        ELSE IF info.is_active /\ strength < 50
             THEN [trade |-> FALSE, rule |-> "low_in_zone"]
        ELSE [trade |-> TRUE, rule |-> "default"]

(***************************************************************************)
(* Inputs of the kill-zone specification.                                  *)
(***************************************************************************)
\* 2025-01-26T00:00:00Z, the day the repository's own kill-zone test uses.
Day0 == 1737849600

\* Quarter hours enumerated from Day0 (96 = one day).
TsSlots == 96

TsStep == 15 * 60

\* Each quarter hour, one second after it, and one second before the next.
TsSet == {Day0 + TsStep * k + d : k \in 0..(TsSlots - 1), d \in {0, 1, TsStep - 1}}

StrengthSet == {5 * k : k \in 0..20} \cup {-4, -1, 39, 49, 69, 79}

NoP1Info == [zone_type |-> "unset", is_active |-> FALSE, strength_multiplier |-> 0,
             start_hour |-> 0, end_hour |-> 0]

NoCurInfo == [zone_type |-> "unset", is_active |-> FALSE, time_until_next |-> -1,
              time_remaining |-> -1, session |-> "unset",
              optimal_for_entries |-> FALSE, volatility_expected |-> "unset"]

NoStResult == [trade |-> FALSE, rule |-> "unset"]

\* No date read yet.
NoDates == <<>>

KZIdle ==
    /\ kz_pc = "idle"
    /\ ts = Day0
    /\ sig_strength = 0
    /\ p1_info = NoP1Info
    /\ cur_info = NoCurInfo
    /\ kz_today = NoDates
    /\ st_result = NoStResult

KZInit ==
    /\ kz_pc = "input"
    /\ ts \in TsSet
    /\ sig_strength \in StrengthSet
    /\ p1_info = NoP1Info
    /\ cur_info = NoCurInfo
    /\ kz_today = NoDates
    /\ st_result = NoStResult

GetKillZoneInfo ==
    /\ kz_pc = "input"
    /\ p1_info' = get_kill_zone_info(ts)
    /\ kz_pc' = "get_kill_zone_info"
    /\ UNCHANGED <<ts, sig_strength, cur_info, kz_today, st_result>>
    /\ UNCHANGED <<ev_vars, eng_vars, ict_vars, ind_vars, fn_vars, smc_vars, rp_vars>>

GetCurrentKillZone ==
    /\ kz_pc = "input"
    /\ \E today \in DatesRead(MaxReads) :
           /\ cur_info' = get_current_kill_zone(ts, today)
           /\ kz_today' = today
    /\ kz_pc' = "get_current_kill_zone"
    /\ UNCHANGED <<ts, sig_strength, p1_info, st_result>>
    /\ UNCHANGED <<ev_vars, eng_vars, ict_vars, ind_vars, fn_vars, smc_vars, rp_vars>>

ShouldTradeSignal ==
    /\ kz_pc = "input"
    /\ \E today \in DatesRead(MaxReads) :
           /\ st_result' = should_trade_signal(ts, today, sig_strength)
           /\ cur_info' = get_current_kill_zone(ts, today)
           /\ kz_today' = today
    /\ kz_pc' = "should_trade_signal"
    /\ UNCHANGED <<ts, sig_strength, p1_info>>
    /\ UNCHANGED <<ev_vars, eng_vars, ict_vars, ind_vars, fn_vars, smc_vars, rp_vars>>

(***************************************************************************)
(* SignalEngine.evaluate_timeframe                                         *)
(*                                                                         *)
(* The indicator library is applied to the closes of the series; what the  *)
(* evaluator reads is the last entry of each indicator list.  The model    *)
(* takes those last entries as the input: close, sma50, sma200 and the     *)
(* two MACD lines as integers (only compared with one another), rsi in     *)
(* tenths of a point.  Whether an entry is the None sentinel follows from  *)
(* the padding rules of the library and the length of the series.          *)
(***************************************************************************)
\* evaluate_timeframe's minimum number of candles.
MinCandles == 200

\* Indicators.sma / rsi / macd: the last entry is None below these lengths.
\*   sma(p): len < p;  rsi(14): len < 15;  macd line: len < 26;
\*   signal line and histogram: len < 26 + 9 - 1 + 1.
FirstReadyLen(name) ==
    CASE name = "sma50"       -> 50
      [] name = "sma200"      -> 200
      [] name = "rsi"         -> 15
      [] name = "macd_line"   -> 26
      [] name = "macd_signal" -> 35

IsNone(name, n) == n < FirstReadyLen(name)

\* histogram = macd_line - signal_line.
macd_hist(ind) == ind.macd_line - ind.macd_signal

EvalResult(sig, strength, rationale, computed) ==
    [mini_signal |-> sig, strength |-> strength, rationale |-> rationale,
     indicators_computed |-> computed]

\* The mini-signal with the thresholds counted in: Bullish from 30 up,
\* Bearish from -30 down.
mini_signal_inclusive(net_score) ==
    IF net_score >= 30 THEN "Bullish"
    ELSE IF net_score <= -30 THEN "Bearish" ELSE "Neutral"

\* The mini-signal of a net score (lines 171-178).
mini_signal_of(net_score) ==
    IF net_score > 30 THEN "Bullish"
    ELSE IF net_score < -30 THEN "Bearish" ELSE "Neutral"

\* The four weighted checks on the latest candle (lines 118-185).
ScoreTimeframe(ind) ==
    LET trend == IF ind.sma50 > ind.sma200 THEN [bull |-> 30, bear |-> 0, txt |-> "SMA50>200 (Bullish trend)"]
                 ELSE IF ind.sma50 < ind.sma200 THEN [bull |-> 0, bear |-> 30, txt |-> "SMA50<200 (Bearish trend)"]
                 ELSE [bull |-> 0, bear |-> 0, txt |-> "SMA50=200 (Neutral trend)"]
        loc   == IF ind.close > ind.sma50 THEN [bull |-> 25, bear |-> 0, txt |-> "Above SMA50"]
                 ELSE IF ind.close < ind.sma50 THEN [bull |-> 0, bear |-> 25, txt |-> "Below SMA50"]
                 ELSE [bull |-> 0, bear |-> 0, txt |-> ""]
        mom   == IF ind.rsi < 300 THEN [bull |-> 25, bear |-> 0, txt |-> "Oversold"]
                 ELSE IF ind.rsi > 700 THEN [bull |-> 0, bear |-> 25, txt |-> "Overbought"]
                 ELSE IF 400 <= ind.rsi /\ ind.rsi <= 600 THEN [bull |-> 0, bear |-> 0, txt |-> "Neutral"]
                 ELSE IF ind.rsi > 600 THEN [bull |-> 0, bear |-> 10, txt |-> "Slightly overbought"]
                 ELSE [bull |-> 10, bear |-> 0, txt |-> "Slightly oversold"]
        macd  == IF ind.macd_line > ind.macd_signal /\ macd_hist(ind) > 0
                    THEN [bull |-> 20, bear |-> 0, txt |-> "MACD bullish cross"]
                 ELSE IF ind.macd_line < ind.macd_signal /\ macd_hist(ind) < 0
                    THEN [bull |-> 0, bear |-> 20, txt |-> "MACD bearish cross"]
                 ELSE [bull |-> 0, bear |-> 0, txt |-> "MACD neutral"]
        bullish_score == trend.bull + loc.bull + mom.bull + macd.bull
        bearish_score == trend.bear + loc.bear + mom.bear + macd.bear
        net_score     == bullish_score - bearish_score
        abs_net       == IF net_score >= 0 THEN net_score ELSE -net_score
        parts         == SelectSeq(<<trend.txt, loc.txt, mom.txt, macd.txt>>, LAMBDA x : x # "")
    IN  EvalResult(mini_signal_of(net_score), Min(100, Max(0, abs_net)), parts, TRUE)

\* An evaluator that turns away only the empty series.
evaluate_timeframe_empty_only(n, ind) ==
    IF n = 0
    THEN EvalResult("Neutral", 0, <<"Insufficient data">>, FALSE)
    ELSE IF \E name \in {"sma50", "sma200", "rsi", "macd_line", "macd_signal"} : IsNone(name, n)
    THEN EvalResult("Neutral", 0, <<"Indicators not ready">>, TRUE)
    ELSE ScoreTimeframe(ind)

\* evaluate_timeframe(candles, interval), candles given by their length n
\* and the indicator values ind at the last index.
evaluate_timeframe(n, ind) ==
    IF n = 0 \/ n < MinCandles
    THEN EvalResult("Neutral", 0, <<"Insufficient data">>, FALSE)
    ELSE IF \E name \in {"sma50", "sma200", "rsi", "macd_line", "macd_signal"} : IsNone(name, n)
    THEN EvalResult("Neutral", 0, <<"Indicators not ready">>, TRUE)
    ELSE ScoreTimeframe(ind)

\* ---- inputs ----
\* Candles beyond the minimum in the longest series tried.
ExtraCandles == 50

LenSet == {0, 1, MinCandles - 1, MinCandles, MinCandles + ExtraCandles}

PriceSet == {99, 100, 101}

RsiSet == {0, 299, 300, 350, 399, 400, 500, 600, 601, 650, 700, 701, 1000}

MacdSet == {-1, 0, 1}

IndSet ==
    [close : PriceSet, sma50 : PriceSet, sma200 : PriceSet, rsi : RsiSet,
     macd_line : MacdSet, macd_signal : MacdSet]

\* What stands for the indicator values of a series too short to have them.
NoInd == [close |-> 0, sma50 |-> 0, sma200 |-> 0, rsi |-> 0, macd_line |-> 0, macd_signal |-> 0]

NoEvalResult == EvalResult("unset", 0, <<>>, FALSE)

EVIdle ==
    /\ ev_pc = "idle"
    /\ ev_n = 0
    /\ ev_ind = NoInd
    /\ ev_result = NoEvalResult

EVInit ==
    /\ ev_pc = "input"
    /\ ev_n \in LenSet
    /\ ev_ind \in (IF ev_n < MinCandles THEN {NoInd} ELSE IndSet)
    /\ ev_result = NoEvalResult

EvaluateTimeframe ==
    /\ ev_pc = "input"
    /\ ev_result' = evaluate_timeframe(ev_n, ev_ind)
    /\ ev_pc' = "done"
    /\ UNCHANGED <<ev_n, ev_ind>>
    /\ UNCHANGED <<kz_vars, eng_vars, ict_vars, ind_vars, fn_vars, smc_vars, rp_vars>>

(***************************************************************************)
(* SignalEngine.generate_signal                                            *)
(*                                                                         *)
(* A call is given by what the code reads from its three candle series:    *)
(*   n15, n1h, n1d        their lengths,                                   *)
(*   ind15, ind1h, ind1d  the indicator values at their last index,        *)
(*   candles              the analysis candles (the 1h series, or the 15m  *)
(*                        series when the 1h series is empty),             *)
(*   now                  int(datetime.utcnow().timestamp()).              *)
(* Strengths, bonuses and probabilities are doubles.                       *)
(***************************************************************************)
\* float(x) of a whole number of points.
Pts(x) == DFromInt(x)

\* ---- detector results read by the orchestrator ----
Sig(t, s, c) == [signal_type |-> t, strength |-> s, confidence |-> c]

\* ICTSignalResult / SMCSignalResult as raised by the detectors.
BULLISH_BREAKER == Sig("bullish_breaker", 85, 90)

BEARISH_BREAKER == Sig("bearish_breaker", 85, 90)

BOS_BULLISH == Sig("bos_bullish", 75, 80)

BOS_BEARISH == Sig("bos_bearish", 75, 80)

MM_BUY_MODEL == Sig("mm_buy_model", 90, 85)

MM_SELL_MODEL == Sig("mm_sell_model", 90, 85)

LIQUIDITY_SWEEP_BULLISH == Sig("liquidity_sweep_bullish", 85, 80)

LIQUIDITY_SWEEP_BEARISH == Sig("liquidity_sweep_bearish", 85, 80)

BPR_BULLISH == Sig("bpr_bullish", 65, 60)

BPR_BEARISH == Sig("bpr_bearish", 65, 60)

INDUCEMENT_BULLISH == Sig("inducement_bullish", 75, 70)

INDUCEMENT_BEARISH == Sig("inducement_bearish", 75, 70)

MITIGATION_BULLISH == Sig("mitigation_bullish", 80, 75)

MITIGATION_BEARISH == Sig("mitigation_bearish", 80, 75)

\* 'bullish' in str(s.signal_type).lower()
HasBullishTag(t) ==
    t \in {"bullish_breaker", "fvg_bullish", "bos_bullish", "mss_bullish",
           "liquidity_sweep_bullish", "inducement_bullish", "mitigation_bullish",
           "bpr_bullish"}

HasBearishTag(t) ==
    t \in {"bearish_breaker", "fvg_bearish", "bos_bearish", "mss_bearish",
           "liquidity_sweep_bearish", "inducement_bearish", "mitigation_bearish",
           "bpr_bearish"}

\* max(signals, key=lambda x: x.strength * x.confidence): the first maximum.
Strongest(signals) ==
    LET key(i) == signals[i].strength * signals[i].confidence
        i == CHOOSE j \in 1..Len(signals) :
                 /\ \A k \in 1..Len(signals) : key(k) <= key(j)
                 /\ \A k \in 1..(j - 1) : key(k) < key(j)
    IN  signals[i]

\* ---- weighting (lines 337-363) ----
\* TIMEFRAME_WEIGHTS = {M15: 0.35, H1: 0.35, D1: 0.30}
TIMEFRAME_WEIGHTS == [m15 |-> D(35, 100), h1 |-> D(35, 100), d1 |-> D(30, 100)]

\* m15_strength * w + h1_strength * w + d1_strength * w, summed left to right.
weighted_strength(m15, h1, d1) ==
    DAdd(DAdd(DMul(Pts(m15), TIMEFRAME_WEIGHTS.m15), DMul(Pts(h1), TIMEFRAME_WEIGHTS.h1)),
         DMul(Pts(d1), TIMEFRAME_WEIGHTS.d1))

Count(signals, v) == Cardinality({i \in 1..Len(signals) : signals[i] = v})

\* A bonus of 15 for every timeframe, whatever its vote, once two agree.
confluence_bonus_all_timeframes(signals) ==
    IF Count(signals, "Bullish") >= 2 THEN 15 * Len(signals)
    ELSE IF Count(signals, "Bearish") >= 2 THEN 15 * Len(signals)
    ELSE 0

\* signals = [m15_signal, h1_signal, d1_signal]
confluence_bonus(signals) ==
    IF Count(signals, "Bullish") >= 2 THEN 15 * Count(signals, "Bullish")
    ELSE IF Count(signals, "Bearish") >= 2 THEN 15 * Count(signals, "Bearish")
    ELSE 0

preliminary_rec(signals) ==
    IF Count(signals, "Bullish") >= 2 THEN "buy"
    ELSE IF Count(signals, "Bearish") >= 2 THEN "sell"
    ELSE "neutral"

\* A vote that is satisfied with a single Bullish or Bearish timeframe.
vote_one_suffices(signals) ==
    IF Count(signals, "Bullish") >= 1 THEN "Buy"
    ELSE IF Count(signals, "Bearish") >= 1 THEN "Sell"
    ELSE "Neutral"

\* The 2-of-3 vote of lines 421-427.
vote(signals) ==
    IF Count(signals, "Bullish") >= 2 THEN "Buy"
    ELSE IF Count(signals, "Bearish") >= 2 THEN "Sell"
    ELSE "Neutral"

\* ---- ICTPhase1Enhancements.calculate_phase1_enhancement ----
\* The total with no cap put on it.
cap_enhancement_none(enhancement_bonus) == enhancement_bonus

\* min(enhancement_bonus, 40.0) (line 460).
cap_enhancement(enhancement_bonus) == DMin(enhancement_bonus, Pts(40))

\* (kill_zone_info.strength_multiplier - 1.0) * 100 (line 408), the
\* multiplier given in percent: 1.15 gives 14.999999999999991.
kz_bonus_of(multiplier) == DMul(DSub(D(multiplier, 100), Pts(1)), Pts(100))

\* n: len(candles); a: the features of the series (last_ts, the PD-array
\* location of the last close, the confirmed sweeps of the last 10 candles).
calculate_phase1_enhancement(n, a, recommendation) ==
    IF n = 0 THEN DZero
    ELSE
        LET \* calculate_pd_arrays: 'unknown' below the 50-candle lookback
            location == IF n < 50 THEN "unknown" ELSE a.pd_location
            in_ote   == n >= 50 /\ a.pd_in_ote
            pd_aligned == \/ recommendation = "buy" /\ location = "discount"
                          \/ recommendation = "sell" /\ location = "premium"
            pd_bonus == IF recommendation = "buy" /\ in_ote THEN Pts(20) ELSE Pts(15)
            \* detect_liquidity_sweeps: none below its 10-candle lookback
            sweeps   == IF n < 10 THEN {} ELSE a.sweeps
            \* (best_sweep.strength / 100) * 25
            sweep_bonus(best) == DMul(DDivInt(Pts(best.strength), 100), Pts(25))
        IN  \* enhancement_bonus = 0.0, then one += for each part that applies
            cap_enhancement(
                CHOOSE with_sweep \in
                    {IF aligned # {}
                     THEN DAdd(with_pd, sweep_bonus(CHOOSE sw \in aligned :
                                                       \A o \in aligned : o.strength <= sw.strength))
                     ELSE with_pd
                        : aligned \in {{sw \in sweeps :
                                          \/ recommendation = "buy" /\ sw.expectation = "bullish_move"
                                          \/ recommendation = "sell" /\ sw.expectation = "bearish_move"}},
                          with_pd \in
                              {CHOOSE x \in {IF pd_aligned THEN DAdd(with_kz, pd_bonus) ELSE with_kz
                                                : with_kz \in
                                                    {CHOOSE y \in
                                                        {IF kz.is_active
                                                         THEN DAdd(DZero, kz_bonus_of(kz.strength_multiplier))
                                                         ELSE DZero
                                                            : kz \in {get_kill_zone_info(a.last_ts)}} : TRUE}}
                                   : TRUE}} : TRUE)

\* The rationale list of the same call, each part held as the name of the
\* feature it reports, in the order the parts are appended.
phase1_rationale(n, a, recommendation) ==
    IF n = 0 THEN <<>>
    ELSE
        LET kz       == get_kill_zone_info(a.last_ts)
            location == IF n < 50 THEN "unknown" ELSE a.pd_location
            pd_aligned == \/ recommendation = "buy" /\ location = "discount"
                          \/ recommendation = "sell" /\ location = "premium"
            sweeps   == IF n < 10 THEN {} ELSE a.sweeps
            aligned  == {sw \in sweeps :
                            \/ recommendation = "buy" /\ sw.expectation = "bullish_move"
                            \/ recommendation = "sell" /\ sw.expectation = "bearish_move"}
        IN  (IF kz.is_active THEN <<"Kill Zone">> ELSE <<>>)
              \o (IF pd_aligned THEN <<"PD Array">> ELSE <<>>)
              \o (IF aligned # {} THEN <<"Liquidity Sweep">> ELSE <<>>)

\* ---- AIEnhancer ----
\* _classify_market_regime: UNKNOWN below 20 candles.
classify_market_regime(n, a) == IF n < 20 THEN "unknown" ELSE a.regime

\* _calculate_regime_alignment(pattern_type, regime, signal_strength)
_calculate_regime_alignment(pattern_type, regime, signal_strength) ==
    LET is_bullish == HasBullishTag(pattern_type) \/ pattern_type = "mm_buy_model"
        is_bearish == HasBearishTag(pattern_type) \/ pattern_type = "mm_sell_model"
        base ==
            IF regime \in {"strong_trend_up", "trend_up"} THEN
                (IF is_bullish THEN (IF regime = "strong_trend_up" THEN 85 ELSE 75)
                 ELSE IF is_bearish THEN 25 ELSE 50)
            ELSE IF regime \in {"strong_trend_down", "trend_down"} THEN
                (IF is_bearish THEN (IF regime = "strong_trend_down" THEN 85 ELSE 75)
                 ELSE IF is_bullish THEN 25 ELSE 50)
            ELSE IF regime = "ranging" THEN
                (IF pattern_type \in {"bullish_breaker", "bearish_breaker",
                                      "mitigation_bullish", "mitigation_bearish"}
                 THEN 80 ELSE 60)
            ELSE IF regime = "volatile" THEN 40
            ELSE 50
        \* alignment * (0.5 + signal_strength / 200)
        alignment == DMul(Pts(base), DAdd(D(5, 10), DDivInt(signal_strength, 200)))
    IN  DMin(Pts(100), DMax(DZero, alignment))

\* _calculate_false_signal_risk; df['volume'] on the frame of an empty
\* candle list is a KeyError, held as raised.
_calculate_false_signal_risk(n, a, regime) ==
    IF n = 0 THEN [raised |-> TRUE, risk |-> 0]
    ELSE [raised |-> FALSE,
          risk |-> Min(100, (IF a.low_volume THEN 20 ELSE 0)
                          + (IF n >= 10 /\ a.choppy THEN 25 ELSE 0)
                          + (IF a.wide_spreads THEN 15 ELSE 0)
                          + (IF regime = "volatile" THEN 20 ELSE 0))]

_calculate_confluence_bonus(ict_signals, smc_signals) ==
    IF ict_signals = <<>> \/ smc_signals = <<>> THEN 0
    ELSE
        LET ict_bullish == \E i \in 1..Len(ict_signals) : HasBullishTag(ict_signals[i].signal_type)
            ict_bearish == \E i \in 1..Len(ict_signals) : HasBearishTag(ict_signals[i].signal_type)
            smc_bullish == \E i \in 1..Len(smc_signals) : HasBullishTag(smc_signals[i].signal_type)
            smc_bearish == \E i \in 1..Len(smc_signals) : HasBearishTag(smc_signals[i].signal_type)
            agree == IF ict_bullish /\ smc_bullish THEN 12
                     ELSE IF ict_bearish /\ smc_bearish THEN 12
                     ELSE IF (ict_bullish /\ smc_bearish) \/ (ict_bearish /\ smc_bullish) THEN -5
                     ELSE 0
            many  == IF Len(ict_signals) >= 2 /\ Len(smc_signals) >= 1 THEN 5 ELSE 0
        IN  Max(0, Min(20, agree + many))

\* _calculate_success_probability; regime_alignment and the result are
\* doubles, the other arguments whole numbers of points.
_calculate_success_probability(base_confidence, historical_win_rate, regime_alignment, false_signal_risk, confluence) ==
    LET w_base       == D(30, 100)
        w_historical == D(25, 100)
        w_regime     == D(25, 100)
        w_risk       == D(20, 100)
        risk_score   == DSub(Pts(100), Pts(false_signal_risk))
        probability  ==
            DAdd(DAdd(DAdd(DMul(Pts(base_confidence), w_base),
                           DMul(Pts(historical_win_rate), w_historical)),
                      DMul(regime_alignment, w_regime)),
                 DMul(risk_score, w_risk))
    IN  DMin(Pts(100), DMax(DZero, DAdd(probability, Pts(confluence))))

_determine_quality_rating(probability) ==
    IF DLe(Pts(90), probability) THEN "excellent"
    ELSE IF DLe(Pts(75), probability) THEN "good"
    ELSE IF DLe(Pts(50), probability) THEN "moderate"
    ELSE IF DLe(Pts(25), probability) THEN "poor"
    ELSE "reject"

\* The win rate of _get_pattern_performance: pattern_performance_db is never
\* written by the engine, so it is the default of a new pattern.
DefaultWinRate == 50

\* enhance_signal: the success probability and the quality tier.
enhance_signal(n, a, pattern_type, base_strength, base_confidence, ict_signals, smc_signals) ==
    CHOOSE scored \in
        {CHOOSE rated \in
            {[raised |-> fsr.raised, success_probability |-> prob,
              quality_rating |-> _determine_quality_rating(prob),
              market_regime |-> regime, false_signal_risk |-> fsr.risk,
              confluence_bonus |-> confl]
                : prob \in {_calculate_success_probability(
                                base_confidence, DefaultWinRate,
                                _calculate_regime_alignment(pattern_type, regime, base_strength),
                                fsr.risk, confl)}} : TRUE
            : regime \in {classify_market_regime(n, a)},
              fsr \in {_calculate_false_signal_risk(n, a, classify_market_regime(n, a))},
              confl \in {_calculate_confluence_bonus(ict_signals, smc_signals)}} : TRUE

\* ---- the final signal (lines 410-455) ----
\* min(100, int(weighted + confluence + phase1 + (success_probability - 50) * 0.3))
final_strength(weighted, confluence, phase1, success_probability) ==
    Min(100, DInt(DAdd(DAdd(DAdd(weighted, Pts(confluence)), phase1),
                       DMul(DSub(success_probability, Pts(50)), D(3, 10)))))

\* The neutrality rules of lines 429-436 applied to the vote.
decide(signals, quality, strength) ==
    LET r1 == vote(signals)
        r2 == IF quality \in {"poor", "reject"} /\ strength < 50 THEN "Neutral" ELSE r1
    IN  IF strength < 40 THEN "Neutral" ELSE r2

\* The kill-zone adjustment of lines 442-455.  The two calls it makes
\* (lines 443 and 446) each read the host's dates; the adjustment reads
\* zone_type, is_active, optimal_for_entries and should_trade only, which
\* are the same for all dates read, so the set below holds one strength.
kill_zone_adjust(now, strength) ==
    CHOOSE adjusted \in
        {IF kill_zone_info.is_active /\ kill_zone_info.optimal_for_entries
         THEN Min(100, strength + 5)
         ELSE IF kill_zone_info.zone_type = "off_hours" /\ ~should_trade
         THEN Max(0, strength - 15)
         ELSE strength
            : kill_zone_info \in {get_current_kill_zone(now, today)
                                      : today \in DatesRead(MaxReads)},
              should_trade \in {should_trade_signal(now, today, strength).trade
                                    : today \in DatesRead(MaxReads)}} : TRUE

Raised(err) ==
    [outcome |-> "raised", error |-> err, recommendation |-> "none", strength |-> 0,
     breakdown |-> [d1 |-> "none", h1 |-> "none", m15 |-> "none"],
     weighted_strength |-> DZero, confluence_bonus |-> 0, phase1_bonus |-> DZero,
     success_probability |-> DZero, quality_rating |-> "none", unadjusted_strength |-> 0,
     pattern_type |-> "none", base_strength |-> DZero, base_confidence |-> 0]

\* The reference taken from the strongest signal of both detectors together
\* (the ICT signal on equal keys).
pattern_reference_overall(ict_signals, smc_signals, weighted) ==
    IF ict_signals \o smc_signals = <<>>
    THEN [pattern_type |-> "neutral", base_strength |-> weighted, base_confidence |-> 50]
    ELSE CHOOSE reference \in
            {[pattern_type |-> strongest.signal_type,
              base_strength |-> Pts(strongest.strength),
              base_confidence |-> strongest.confidence]
                : strongest \in {Strongest(ict_signals \o smc_signals)}} : TRUE

\* The pattern reference handed to the AI scorer (lines 375-396): the
\* strongest ICT signal if there is any ICT signal, else the strongest SMC
\* signal, else the neutral pattern on the weighted strength.
pattern_reference(ict_signals, smc_signals, weighted) ==
    IF ict_signals # <<>>
    THEN CHOOSE reference \in
            {[pattern_type |-> strongest_ict.signal_type,
              base_strength |-> Pts(strongest_ict.strength),
              base_confidence |-> strongest_ict.confidence]
                : strongest_ict \in {Strongest(ict_signals)}} : TRUE
    ELSE IF smc_signals # <<>>
    THEN CHOOSE reference \in
            {[pattern_type |-> strongest_smc.signal_type,
              base_strength |-> Pts(strongest_smc.strength),
              base_confidence |-> strongest_smc.confidence]
                : strongest_smc \in {Strongest(smc_signals)}} : TRUE
    ELSE [pattern_type |-> "neutral", base_strength |-> weighted, base_confidence |-> 50]

\* generate_signal from line 327 on, given what the steps before it found:
\* a holds the features of the analysis candles (the time of the last
\* candle, its PD-array location, the confirmed sweeps, the regime and the
\* risk flags), ict and smc say whether the call of analyze_candles at
\* line 312 / 320 raised and hold the signals it returned.
generate_signal_from(r, a, ict, smc) ==
    IF ict.raised THEN Raised("ValueError")
    ELSE IF smc.raised THEN Raised("NameError")
    ELSE CHOOSE response \in
        {CHOOSE enhanced \in
            {CHOOSE scored \in
                {IF ai.raised THEN Raised("KeyError")
                 ELSE CHOOSE final \in
                    {CHOOSE adjust \in
                        {\* SignalResponse: strength is Field(ge=0, le=100)
                         IF adjusted < 0 \/ adjusted > 100
                         THEN [Raised("ValidationError") EXCEPT !.strength = adjusted,
                                                               !.unadjusted_strength = fs]
                         ELSE [outcome |-> "returned", error |-> "none",
                               recommendation |-> decide(signals, ai.quality_rating, fs),
                               strength |-> adjusted,
                               breakdown |-> [d1 |-> d1.mini_signal, h1 |-> h1.mini_signal,
                                              m15 |-> m15.mini_signal],
                               weighted_strength |-> weighted, confluence_bonus |-> confl,
                               phase1_bonus |-> phase1,
                               success_probability |-> ai.success_probability,
                               quality_rating |-> ai.quality_rating, unadjusted_strength |-> fs,
                               pattern_type |-> pattern.pattern_type,
                               base_strength |-> pattern.base_strength,
                               base_confidence |-> pattern.base_confidence]
                            : adjusted \in {kill_zone_adjust(r.now, fs)}} : TRUE
                        : fs \in {final_strength(weighted, confl, phase1, ai.success_probability)}} : TRUE
                    : ai \in {enhance_signal(Len(r.candles), a, pattern.pattern_type,
                                             pattern.base_strength, pattern.base_confidence,
                                             ict.signals, smc.signals)}} : TRUE
                : signals \in {<<m15.mini_signal, h1.mini_signal, d1.mini_signal>>},
                  confl \in {confluence_bonus(<<m15.mini_signal, h1.mini_signal, d1.mini_signal>>)},
                  phase1 \in {calculate_phase1_enhancement(Len(r.candles), a,
                                  preliminary_rec(<<m15.mini_signal, h1.mini_signal, d1.mini_signal>>))},
                  weighted \in {weighted_strength(m15.strength, h1.strength, d1.strength)},
                  pattern \in {pattern_reference(ict.signals, smc.signals,
                                   weighted_strength(m15.strength, h1.strength, d1.strength))}} : TRUE
            : m15 \in {evaluate_timeframe(r.n15, r.ind15)},
              h1 \in {evaluate_timeframe(r.n1h, r.ind1h)},
              d1 \in {evaluate_timeframe(r.n1d, r.ind1d)}} : TRUE

\* aggregate_signals(timeframe_results): the deprecated static aggregation.
aggregate_signals(m15, h1, d1) ==
    LET signals  == <<m15.mini_signal, h1.mini_signal, d1.mini_signal>>
        confl    == confluence_bonus(signals)
    IN  CHOOSE aggregated \in
            {[recommendation |-> IF fs < 40 THEN "Neutral" ELSE vote(signals),
              strength |-> fs,
              breakdown |-> [d1 |-> d1.mini_signal, h1 |-> h1.mini_signal,
                             m15 |-> m15.mini_signal],
              confluence_bonus |-> confl]
                \* min(100, int(weighted_strength + confluence_bonus))
                : fs \in {Min(100, DInt(DAdd(weighted_strength(m15.strength, h1.strength,
                                                               d1.strength),
                                             Pts(confl))))}} : TRUE

(***************************************************************************)
(* ICTStrategies: the stateful pattern detector.                           *)
(*                                                                         *)
(* The detector keeps order_blocks, fair_value_gaps and market_structure   *)
(* across calls of analyze_candles; nothing is ever removed.  Prices are   *)
(* whole numbers; close < previous * 0.98 reads BelowPct(close, previous,  *)
(* 98, 100).  A signal is held by the fields the ranking and the           *)
(* orchestrator read, plus its price.                                      *)
(***************************************************************************)
CandleOf(t, o, h, l, c) == [t |-> t, o |-> o, h |-> h, l |-> l, c |-> c]

\* df.tail(n) / candles[-n:]
df_tail(df, n) == SubSeq(df, Max(1, Len(df) - n + 1), Len(df))

OrderBlock(high, low, timestamp, type) ==
    [high |-> high, low |-> low, timestamp |-> timestamp, type |-> type,
     confirmed |-> FALSE, broken |-> FALSE, breaker_confirmed |-> FALSE]

FairValueGap(high, low, start_timestamp, end_timestamp, direction) ==
    [high |-> high, low |-> low, start_timestamp |-> start_timestamp,
     end_timestamp |-> end_timestamp, direction |-> direction, filled |-> FALSE]

\* MarketStructure as __init__ leaves it.
InitialMarketStructure ==
    [trend |-> "neutral", last_swing_high |-> 0, last_swing_low |-> 0,
     swing_high_timestamp |-> 0, swing_low_timestamp |-> 0,
     bos_confirmed |-> FALSE, bos_direction |-> "none",
     mss_confirmed |-> FALSE, mss_direction |-> "none"]

ICTSignalResult(sig, price) ==
    [signal_type |-> sig.signal_type, strength |-> sig.strength,
     confidence |-> sig.confidence, price |-> price]

\* ---- 1. order blocks (lines 153-180) ----
\* for i in range(1, len(recent_candles)): every candle that closes more
\* than 2% beyond the close before it appends one block, in candle order.
OrderBlockLoop(recent_candles, i, blocks) ==
    LET block_at(k) ==
            LET current == recent_candles[k]
                previous == recent_candles[k - 1]
            IN  IF BelowPct(current.c, previous.c, 98, 100)
                THEN <<OrderBlock(previous.h, previous.l, current.t, "bearish")>>
                ELSE IF ExceedsPct(current.c, previous.c, 102, 100)
                THEN <<OrderBlock(previous.h, previous.l, current.t, "bullish")>>
                ELSE <<>>
        at == [k \in i..Max(i - 1, Len(recent_candles)) |-> block_at(k)]
    IN  CHOOSE r \in
            {blocks \o [n \in 1..Len(found) |-> found[n][1]]
                : found \in {SelectSeq([n \in 1..(Max(i - 1, Len(recent_candles)) - i + 1) |-> at[n + i - 1]],
                                       LAMBDA x : x # <<>>)}} : TRUE

_detect_order_blocks(df, blocks) == OrderBlockLoop(df_tail(df, 20), 2, blocks)

\* ---- 2. fair value gaps (lines 182-209) ----
\* for i in range(2, len(df)): every candle that leaves a gap to the
\* candle two before it appends one gap, in candle order.
FairValueGapLoop(df, i, gaps) ==
    LET gap_at(k) ==
            LET current == df[k]
                prev_candle == df[k - 2]
            IN  IF ExceedsPct(current.l, prev_candle.l, 1001, 1000)
                THEN <<FairValueGap(current.l, prev_candle.l,
                                    prev_candle.t, current.t, "bullish")>>
                ELSE IF BelowPct(current.h, prev_candle.h, 999, 1000)
                THEN <<FairValueGap(prev_candle.h, current.h,
                                    prev_candle.t, current.t, "bearish")>>
                ELSE <<>>
        at == [k \in i..Max(i - 1, Len(df)) |-> gap_at(k)]
    IN  CHOOSE r \in
            {gaps \o [n \in 1..Len(found) |-> found[n][1]]
                : found \in {SelectSeq([n \in 1..(Max(i - 1, Len(df)) - i + 1) |-> at[n + i - 1]],
                                       LAMBDA x : x # <<>>)}} : TRUE

_detect_fair_value_gaps(df, gaps) == FairValueGapLoop(df, 3, gaps)

\* ---- 3. market structure and break of structure (lines 211-286) ----
SeqMax(s) == CHOOSE x \in {s[i] : i \in 1..Len(s)} : \A j \in 1..Len(s) : s[j] <= x

SeqMin(s) == CHOOSE x \in {s[i] : i \in 1..Len(s)} : \A j \in 1..Len(s) : x <= s[j]

BlocksOfType(blocks, type) == SelectSeq(blocks, LAMBDA b : b.type = type)

\* _check_bullish_bos: "false", "true", or "raise" when max() is given the
\* empty list (blocks are held, none of them bearish).
_check_bullish_bos(blocks, ms) ==
    IF Len(blocks) = 0 THEN "false"
    ELSE LET bearish == BlocksOfType(blocks, "bearish")
         IN  IF bearish = <<>> THEN "raise"
             ELSE LET recent_resistance == SeqMax([i \in 1..Len(bearish) |-> bearish[i].high])
                  IN  IF ExceedsPct(ms.last_swing_high, recent_resistance, 1001, 1000)
                      THEN "true" ELSE "false"

_check_bearish_bos(blocks, ms) ==
    IF Len(blocks) = 0 THEN "false"
    ELSE LET bullish == BlocksOfType(blocks, "bullish")
         IN  IF bullish = <<>> THEN "raise"
             ELSE LET recent_support == SeqMin([i \in 1..Len(bullish) |-> bullish[i].low])
                  IN  IF BelowPct(ms.last_swing_low, recent_support, 999, 1000)
                      THEN "true" ELSE "false"

\* The swing tests of one index of the last ten candles (window i-2..i+2).
IsSwingHigh(recent_data, i) == \A j \in (i - 2)..(i + 2) : recent_data[i].h >= recent_data[j].h

IsSwingLow(recent_data, i) == \A j \in (i - 2)..(i + 2) : recent_data[i].l <= recent_data[j].l

\* The loop over the swing candidates; it stops where a check raises, with
\* the swing already written to market_structure.
RECURSIVE MarketStructureLoop(_, _, _, _, _)
MarketStructureLoop(recent_data, i, blocks, ms, results) ==
    IF i > Len(recent_data) - 2
    THEN [market_structure |-> ms, results |-> results, raised |-> FALSE]
    ELSE LET current == recent_data[i]
         IN  IF IsSwingHigh(recent_data, i)
             THEN LET ms1 == [ms EXCEPT !.last_swing_high = current.h,
                                        !.swing_high_timestamp = current.t]
                  IN  CHOOSE r \in
                        {IF bos = "raise"
                         THEN [market_structure |-> ms1, results |-> results, raised |-> TRUE]
                         ELSE IF bos = "true"
                         THEN MarketStructureLoop(recent_data, i + 1, blocks,
                                  [ms1 EXCEPT !.bos_confirmed = TRUE, !.bos_direction = "bullish"],
                                  Append(results, ICTSignalResult(BOS_BULLISH, current.h)))
                         ELSE MarketStructureLoop(recent_data, i + 1, blocks, ms1, results)
                            : bos \in {_check_bullish_bos(blocks, ms1)}} : TRUE
             ELSE IF IsSwingLow(recent_data, i)
             THEN LET ms1 == [ms EXCEPT !.last_swing_low = current.l,
                                        !.swing_low_timestamp = current.t]
                  IN  CHOOSE r \in
                        {IF bos = "raise"
                         THEN [market_structure |-> ms1, results |-> results, raised |-> TRUE]
                         ELSE IF bos = "true"
                         THEN MarketStructureLoop(recent_data, i + 1, blocks,
                                  [ms1 EXCEPT !.bos_confirmed = TRUE, !.bos_direction = "bearish"],
                                  Append(results, ICTSignalResult(BOS_BEARISH, current.l)))
                         ELSE MarketStructureLoop(recent_data, i + 1, blocks, ms1, results)
                            : bos \in {_check_bearish_bos(blocks, ms1)}} : TRUE
             ELSE MarketStructureLoop(recent_data, i + 1, blocks, ms, results)

_analyze_market_structure(df, blocks, ms) ==
    IF Len(df) < 10
    THEN [market_structure |-> ms, results |-> <<>>, raised |-> FALSE]
    ELSE MarketStructureLoop(df_tail(df, 10), 3, blocks, ms, <<>>)

\* ---- 4. breaker blocks (lines 288-344) ----
\* How many of the most recently added order blocks the scan looks at
\* (self.order_blocks[-10:]).
BreakerWindow == 10

RECURSIVE BreakerLoop(_, _, _, _)
BreakerLoop(current_price, blocks, i, results) ==
    IF i > Len(blocks) THEN [order_blocks |-> blocks, results |-> results]
    ELSE LET block == blocks[i]
         IN  IF ~block.broken /\ block.type = "bearish" /\ current_price > block.high
             THEN BreakerLoop(current_price,
                      [blocks EXCEPT ![i].broken = TRUE, ![i].breaker_confirmed = TRUE],
                      i + 1, Append(results, ICTSignalResult(BULLISH_BREAKER, current_price)))
             ELSE IF ~block.broken /\ block.type = "bullish" /\ current_price < block.low
             THEN BreakerLoop(current_price,
                      [blocks EXCEPT ![i].broken = TRUE, ![i].breaker_confirmed = TRUE],
                      i + 1, Append(results, ICTSignalResult(BEARISH_BREAKER, current_price)))
             ELSE BreakerLoop(current_price, blocks, i + 1, results)

\* The scan with the bullish branch marking the block broken only.
_detect_breaker_blocks_unconfirmed(recent_candles, blocks) ==
    LET RECURSIVE Loop(_, _, _)
        Loop(bs, i, results) ==
            IF i > Len(bs) THEN [order_blocks |-> bs, results |-> results]
            ELSE IF ~bs[i].broken /\ bs[i].type = "bearish"
                    /\ recent_candles[Len(recent_candles)].c > bs[i].high
            THEN Loop([bs EXCEPT ![i].broken = TRUE, ![i].breaker_confirmed = TRUE], i + 1,
                      Append(results, ICTSignalResult(BULLISH_BREAKER,
                                                      recent_candles[Len(recent_candles)].c)))
            ELSE IF ~bs[i].broken /\ bs[i].type = "bullish"
                    /\ recent_candles[Len(recent_candles)].c < bs[i].low
            THEN Loop([bs EXCEPT ![i].broken = TRUE], i + 1, results)
            ELSE Loop(bs, i + 1, results)
    IN  IF Len(recent_candles) < 3 THEN [order_blocks |-> blocks, results |-> <<>>]
        ELSE Loop(blocks, Max(1, Len(blocks) - BreakerWindow + 1), <<>>)

\* The scan without the test of block.broken: a block is marked and gives a
\* signal whenever the close is beyond it.
_detect_breaker_blocks_rescan(recent_candles, blocks) ==
    LET RECURSIVE Loop(_, _, _)
        Loop(bs, i, results) ==
            IF i > Len(bs) THEN [order_blocks |-> bs, results |-> results]
            ELSE IF bs[i].type = "bearish"
                    /\ recent_candles[Len(recent_candles)].c > bs[i].high
            THEN Loop([bs EXCEPT ![i].broken = TRUE, ![i].breaker_confirmed = TRUE], i + 1,
                      Append(results, ICTSignalResult(BULLISH_BREAKER,
                                                      recent_candles[Len(recent_candles)].c)))
            ELSE IF bs[i].type = "bullish"
                    /\ recent_candles[Len(recent_candles)].c < bs[i].low
            THEN Loop([bs EXCEPT ![i].broken = TRUE, ![i].breaker_confirmed = TRUE], i + 1,
                      Append(results, ICTSignalResult(BEARISH_BREAKER,
                                                      recent_candles[Len(recent_candles)].c)))
            ELSE Loop(bs, i + 1, results)
    IN  IF Len(recent_candles) < 3 THEN [order_blocks |-> blocks, results |-> <<>>]
        ELSE Loop(blocks, Max(1, Len(blocks) - BreakerWindow + 1), <<>>)

_detect_breaker_blocks(recent_candles, blocks) ==
    IF Len(recent_candles) < 3 THEN [order_blocks |-> blocks, results |-> <<>>]
    ELSE BreakerLoop(recent_candles[Len(recent_candles)].c, blocks,
                     Max(1, Len(blocks) - BreakerWindow + 1), <<>>)

\* ---- 5. market maker model (lines 346-431) ----
_detect_market_maker_buy_model(df) ==
    LET recent_lows == df_tail(df, 5)
        current_price == df[Len(df)].c
        higher_lows == \A i \in 2..Len(recent_lows) :
                           CmpPct(recent_lows[i].l, 1, recent_lows[i - 1].l, 1, 9995, 10000) >= 0
        last10 == df_tail(df, 10)
        recent_high == SeqMax([i \in 1..Len(last10) |-> last10[i].h])
    IN  higher_lows /\ ExceedsPct(current_price, recent_high, 998, 1000)

_detect_market_maker_sell_model(df) ==
    LET recent_highs == df_tail(df, 5)
        current_price == df[Len(df)].c
        lower_highs == \A i \in 2..Len(recent_highs) :
                           CmpPct(recent_highs[i].h, 1, recent_highs[i - 1].h, 1, 10005, 10000) <= 0
        last10 == df_tail(df, 10)
        recent_low == SeqMin([i \in 1..Len(last10) |-> last10[i].l])
    IN  lower_highs /\ BelowPct(current_price, recent_low, 1002, 1000)

_analyze_market_maker_model(df) ==
    IF Len(df) < 30 THEN <<>>
    ELSE LET recent_data == df_tail(df, 30)
             current_price == recent_data[Len(recent_data)].c
         IN  IF _detect_market_maker_buy_model(recent_data)
             THEN <<ICTSignalResult(MM_BUY_MODEL, current_price)>>
             ELSE IF _detect_market_maker_sell_model(recent_data)
             THEN <<ICTSignalResult(MM_SELL_MODEL, current_price)>>
             ELSE <<>>

\* ---- 6. ranking (lines 433-454) ----
\* sorted(signals, key=strength*confidence, reverse=True): stable, so among
\* equal keys the earlier signal stays first.
RECURSIVE SortedByKey(_)
SortedByKey(signals) ==
    IF signals = <<>> THEN <<>>
    ELSE LET key(i) == signals[i].strength * signals[i].confidence
             i == CHOOSE j \in 1..Len(signals) :
                      /\ \A k \in 1..Len(signals) : key(k) <= key(j)
                      /\ \A k \in 1..(j - 1) : key(k) < key(j)
         IN  <<signals[i]>> \o SortedByKey(SubSeq(signals, 1, i - 1)
                                             \o SubSeq(signals, i + 1, Len(signals)))

RECURSIVE UniqueLoop(_, _, _)
UniqueLoop(sorted_signals, i, unique_signals) ==
    IF i > Len(sorted_signals) THEN unique_signals
    ELSE LET signal == sorted_signals[i]
             seen == \E k \in 1..Len(unique_signals) :
                         unique_signals[k].signal_type = signal.signal_type
         IN  IF ~seen /\ Len(unique_signals) < 3
             THEN UniqueLoop(sorted_signals, i + 1, Append(unique_signals, signal))
             ELSE UniqueLoop(sorted_signals, i + 1, unique_signals)

\* The signals with no order imposed: duplicates dropped, first three kept.
_rank_and_filter_signals_unsorted(signals) ==
    IF signals = <<>> THEN <<>> ELSE UniqueLoop(signals, 1, <<>>)

_rank_and_filter_signals(signals) ==
    IF signals = <<>> THEN <<>> ELSE UniqueLoop(SortedByKey(signals), 1, <<>>)

\* ---- analyze_candles (lines 115-151) ----
\* The detector state is st = [order_blocks, fair_value_gaps,
\* market_structure].  The result carries the state the call leaves behind,
\* how it ended, the order blocks as the breaker scan found them, the
\* signals the scan raised, the results handed to the ranking step and the
\* ranked list returned.
MinIctCandles == 50

analyze_candles(candles, st) ==
    IF Len(candles) < MinIctCandles
    THEN [st |-> st, outcome |-> "returned", scanned |-> FALSE,
          blocks_at_scan |-> st.order_blocks, current_price |-> 0,
          breaker_results |-> <<>>, raised |-> <<>>, signals |-> <<>>]
    ELSE CHOOSE r \in
        {CHOOSE rr \in
            {IF structure.raised
             THEN [st |-> [order_blocks |-> blocks1, fair_value_gaps |-> gaps1,
                           market_structure |-> structure.market_structure],
                   outcome |-> "ValueError", scanned |-> FALSE,
                   blocks_at_scan |-> blocks1, current_price |-> candles[Len(candles)].c,
                   breaker_results |-> <<>>, raised |-> <<>>, signals |-> <<>>]
             ELSE CHOOSE rrr \in
                     {[st |-> [order_blocks |-> breaker.order_blocks, fair_value_gaps |-> gaps1,
                               market_structure |-> structure.market_structure],
                       outcome |-> "returned", scanned |-> TRUE,
                       blocks_at_scan |-> blocks1, current_price |-> candles[Len(candles)].c,
                       breaker_results |-> breaker.results,
                       raised |-> results,
                       signals |-> _rank_and_filter_signals(results)]
                        : results \in {structure.results \o breaker.results
                                           \o _analyze_market_maker_model(candles)}} : TRUE
                : structure \in {_analyze_market_structure(candles, blocks1, st.market_structure)},
                  breaker \in {_detect_breaker_blocks(df_tail(candles, 20), blocks1)}} : TRUE
            : blocks1 \in {_detect_order_blocks(candles, st.order_blocks)},
              gaps1 \in {_detect_fair_value_gaps(candles, st.fair_value_gaps)}} : TRUE

\* ---- the series given to the detector ----
\* Calls of analyze_candles made on the detector instances.
MaxCalls == 2

\* Candles of a full series.
IctLen == 60

\* Candles built from closes: each opens at the previous close and reaches
\* one point beyond its body on both sides; hourly timestamps.
CandlesFromCloses(closes) ==
    [i \in 1..Len(closes) |->
        LET c == closes[i]
            o == IF i = 1 THEN c ELSE closes[i - 1]
        IN  CandleOf(Day0 + 3600 * i, o, Max(o, c) + 1, Min(o, c) - 1, c)]

\* A series of n candles: flat at 100, then the closes of tail.
IctSeries(n, tail) ==
    CandlesFromCloses([i \in 1..(n - Len(tail)) |-> 100] \o tail)

\* Alternating closes 103, 100, ...: every candle is a move of more than 2%.
Zig(n) == [i \in 1..n |-> IF i % 2 = 1 THEN 103 ELSE 100]

IctTails ==
    { <<>>,
      <<103, 103, 103>>,
      <<97, 97, 97>>,
      <<103, 100>>,
      <<103, 100, 110>>,
      <<103, 100, 90>>,
      <<109, 109, 106, 111>>,
      Zig(6),
      Zig(6) \o <<110>>,
      Zig(12),
      Zig(12) \o <<110>>,
      Zig(12) \o <<90>>,
      <<102, 104, 106, 108, 107, 106, 106>> }

\* A candle that opens and closes at c and reaches one point beyond.
FlatAt(c) == <<c, c + 1, c - 1, c>>

Repeat(q, n) == [i \in 1..n |-> q]

\* A series of n hourly candles: flat at base, then the candles of tail,
\* each given as <<open, high, low, close>>.
OhlcSeries(n, base, tail) ==
    [i \in 1..n |->
        LET q == IF i <= n - Len(tail) THEN FlatAt(base) ELSE tail[i - (n - Len(tail))]
        IN  CandleOf(Day0 + 3600 * i, q[1], q[2], q[3], q[4])]

\* Lows at 999 and 1000, then a low at 1001 two candles after the low at
\* 1000: 1000 * 1.001 is 1000.9999999999999 as a double.
GapAtThousand ==
    OhlcSeries(IctLen, 1000,
        << <<1000, 1002, 1000, 1001>>, <<1001, 1003, 1000, 1002>>, <<1002, 1004, 1001, 1003>> >>)

\* A drop of more than 2% from a candle with its high at 1000, and a swing
\* high at 1001 after it.
SwingAtThousand ==
    OhlcSeries(IctLen, 999,
        << <<999, 1000, 977, 978>>, <<978, 1000, 977, 999>>, FlatAt(999), FlatAt(999),
           <<999, 1001, 998, 999>> >> \o Repeat(FlatAt(999), 5))

\* The same with a last candle whose low dips to 997: the last five lows do
\* not rise, and the dip goes under the lows before it.
SwingUnderSweep ==
    OhlcSeries(IctLen, 999,
        << <<999, 1000, 977, 978>>, <<978, 1000, 977, 999>>, FlatAt(999), FlatAt(999),
           <<999, 1001, 998, 999>> >> \o Repeat(FlatAt(999), 4) \o << <<999, 1000, 997, 999>> >>)

\* Flat at 1000, a drop of 3% and a rise to 2000 and on to 2100: a bullish
\* order block with its low at 1999.
RiseToTwoThousand ==
    CandlesFromCloses(Repeat(1000, IctLen - 4) \o <<970, 2000, 2000, 2100>>)

\* Flat at 1000, a drop of 3%, three closes at 1100 and a last close at 1300:
\* a swing high, a bearish order block traded through and a close at the
\* top of the range.
BreakoutAtThousand ==
    CandlesFromCloses(Repeat(1000, IctLen - 5) \o <<970, 1100, 1100, 1100, 1300>>)

IctSeriesSet ==
    {IctSeries(IctLen, tail) : tail \in IctTails}
        \cup {IctSeries(MinIctCandles - 1, <<103, 100, 110>>)}
        \cup {GapAtThousand, SwingAtThousand, RiseToTwoThousand, BreakoutAtThousand}

NoIctCall ==
    [candles |-> <<>>, outcome |-> "none", scanned |-> FALSE, blocks_at_scan |-> <<>>,
     current_price |-> 0, breaker_results |-> <<>>, raised |-> <<>>, signals |-> <<>>]

\* ICTStrategies.__init__
IctInit ==
    /\ order_blocks = <<>>
    /\ fair_value_gaps = <<>>
    /\ market_structure = InitialMarketStructure
    /\ ict_calls = 0
    /\ ict_last = NoIctCall

\* One call of analyze_candles on the detector; a call that raises leaves
\* behind what it had written before the exception.
AnalyzeCandles ==
    /\ ict_calls + smc_calls < MaxCalls
    /\ \E candles \in IctSeriesSet :
          \E r \in {analyze_candles(candles,
                        [order_blocks |-> order_blocks, fair_value_gaps |-> fair_value_gaps,
                         market_structure |-> market_structure])} :
              /\ order_blocks' = r.st.order_blocks
              /\ fair_value_gaps' = r.st.fair_value_gaps
              /\ market_structure' = r.st.market_structure
              /\ ict_last' = [candles |-> candles, outcome |-> r.outcome,
                              scanned |-> r.scanned, blocks_at_scan |-> r.blocks_at_scan,
                              current_price |-> r.current_price,
                              breaker_results |-> r.breaker_results,
                              raised |-> r.raised, signals |-> r.signals]
    /\ ict_calls' = ict_calls + 1
    /\ UNCHANGED <<kz_vars, ev_vars, eng_vars, ind_vars, fn_vars, smc_vars, rp_vars>>

(***************************************************************************)
(* Indicators: sma, rsi, macd and _ema.                                    *)
(*                                                                         *)
(* Numbers are exact fractions [n, d] in lowest terms where the source     *)
(* holds doubles.  np.array(prices) takes its dtype from the list: a list  *)
(* of Python ints gives an int64 array, and np.zeros_like of it gives      *)
(* int64 arrays whose item assignment truncates toward zero; a list of     *)
(* floats (the closes of candles) gives float64 arrays.  dtype says which. *)
(* _ema on an int64 array works in doubles, alpha * data[i] +              *)
(* (1 - alpha) * ema[i-1] with alpha = 2 / (period + 1) rounded at every   *)
(* step, and truncates the result.  In a float64 array the fractions are   *)
(* what the doubles hold when alpha is a power of two, which is so for     *)
(* the periods explored there.  The periods are arguments; as with the     *)
(* defaults 12, 26, 9 the fast and the signal period never exceed the slow *)
(* one.                                                                    *)
(***************************************************************************)
RECURSIVE GCD(_, _)
GCD(a, b) == IF b = 0 THEN a ELSE GCD(b, a % b)

\* The fraction n / d (d > 0) in lowest terms.
Rat(n, d) == LET g == GCD(Abs(n), d) IN [n |-> TruncDiv(n, g), d |-> d \div g]

RatInt(k) == [n |-> k, d |-> 1]

RatAdd(a, b) ==
    LET l == (a.d \div GCD(a.d, b.d)) * b.d
    IN  Rat(a.n * (l \div a.d) + b.n * (l \div b.d), l)

RatSub(a, b) == RatAdd(a, [n |-> -b.n, d |-> b.d])

\* a * k / m for integers k and m > 0.
RatScale(a, k, m) ==
    LET g == GCD(Abs(k), a.d)
        h == GCD(Abs(a.n), m)
    IN  Rat(TruncDiv(a.n, h) * TruncDiv(k, g), (a.d \div g) * (m \div h))

\* a / b for b > 0.
RatDiv(a, b) == Rat(a.n * b.d, a.d * b.n)

RatLe(a, b) == a.n * b.d <= b.n * a.d

\* An item assigned into an array of the given dtype.
Store(dtype, x) == IF dtype = "int64" THEN RatInt(TruncDiv(x.n, x.d)) ELSE x

\* List entries: the None sentinel or a number.
NoneEntry == [none |-> TRUE, n |-> 0, d |-> 1]

Entry(x) == [none |-> FALSE, n |-> x.n, d |-> x.d]

Nones(k) == [i \in 1..k |-> NoneEntry]

Entries(xs) == [i \in 1..Len(xs) |-> Entry(xs[i])]

\* xs[k:] of a Python list held as a sequence.
SliceFrom(xs, k) == SubSeq(xs, k + 1, Len(xs))

RECURSIVE SumSeq(_)
SumSeq(xs) == IF xs = <<>> THEN 0 ELSE xs[1] + SumSeq(Tail(xs))

\* ---- sma (lines 11-30) ----
\* The result with one more leading sentinel than the source pads.
sma_late(prices, period) ==
    IF Len(prices) < period THEN Nones(Len(prices))
    ELSE Nones(Min(period, Len(prices)))
           \o [j \in 1..(Len(prices) - period) |->
                  Entry(Rat(SumSeq(SubSeq(prices, j + 1, j + period)), period))]

\* np.convolve(prices, np.ones(period) / period, mode='valid')[j] is the sum
\* of prices[j .. j+period-1], each times 1 / period.
sma(prices, period) ==
    IF Len(prices) < period THEN Nones(Len(prices))
    ELSE LET sma_values == [j \in 1..(Len(prices) - period + 1) |->
                               Rat(SumSeq(SubSeq(prices, j, j + period - 1)), period)]
         IN  Nones(period - 1) \o Entries(sma_values)

\* ---- rsi (lines 33-71) ----
\* avg_gain / avg_loss as arrays over 0-based indices, held as sequences
\* (index i of the source is position i + 1): zero up to index period - 1,
\* the mean of the first period changes at index period, Wilder's smoothing
\* after it.
RECURSIVE WilderLoop(_, _, _, _, _)
WilderLoop(changes, period, dtype, avg, i) ==
    IF i > Len(changes) THEN avg
    ELSE WilderLoop(changes, period, dtype,
             Append(avg, Store(dtype,
                 RatScale(RatAdd(RatScale(avg[i], period - 1, 1), RatInt(changes[i])),
                          1, period))),
             i + 1)

Wilder(changes, period, dtype) ==
    WilderLoop(changes, period, dtype,
        [i \in 1..(period + 1) |->
            IF i <= period THEN RatInt(0)
            ELSE Store(dtype, Rat(SumSeq(SubSeq(changes, 1, period)), period))],
        period + 1)

\* rs = np.where(avg_loss != 0, avg_gain / avg_loss, 0)
RelativeStrength(avg_gain, avg_loss) ==
    IF avg_loss.n # 0 THEN RatDiv(avg_gain, avg_loss) ELSE RatInt(0)

\* 100 - (100 / (1 + rs))
RsiValue(rs) == RatSub(RatInt(100), RatDiv(RatInt(100), RatAdd(RatInt(1), rs)))

RsiResult(values, avg_gain, avg_loss) ==
    [lists |-> <<values>>, avg_gain |-> avg_gain, avg_loss |-> avg_loss]

\* The index with RSI read as 100 * rs, without the 100 - 100 / (1 + rs) fold.
rsi_unfolded(prices, period, dtype) ==
    IF Len(prices) < period + 1 THEN RsiResult(Nones(Len(prices)), <<>>, <<>>)
    ELSE LET deltas == [i \in 1..(Len(prices) - 1) |-> prices[i + 1] - prices[i]]
             avg_gain == Wilder([i \in 1..Len(deltas) |-> Max(deltas[i], 0)], period, dtype)
             avg_loss == Wilder([i \in 1..Len(deltas) |-> Max(-deltas[i], 0)], period, dtype)
         IN  RsiResult(Nones(period)
                         \o [i \in 1..(Len(prices) - period) |->
                                Entry(RatScale(RelativeStrength(avg_gain[period + i],
                                                                avg_loss[period + i]), 100, 1))],
                       avg_gain, avg_loss)

rsi(prices, period, dtype) ==
    IF Len(prices) < period + 1 THEN RsiResult(Nones(Len(prices)), <<>>, <<>>)
    ELSE LET deltas == [i \in 1..(Len(prices) - 1) |-> prices[i + 1] - prices[i]]
             gains == [i \in 1..Len(deltas) |-> IF deltas[i] > 0 THEN deltas[i] ELSE 0]
             losses == [i \in 1..Len(deltas) |-> IF deltas[i] < 0 THEN -deltas[i] ELSE 0]
             avg_gain == Wilder(gains, period, dtype)
             avg_loss == Wilder(losses, period, dtype)
             rsi_values == [i \in 1..Len(prices) |->
                               RsiValue(RelativeStrength(avg_gain[i], avg_loss[i]))]
         IN  RsiResult(Nones(period) \o Entries(SliceFrom(rsi_values, period)),
                       avg_gain, avg_loss)

\* ---- _ema (lines 118-137) ----
\* ema = zeros_like(data); ema[period-1] = mean(data[:period]); then
\* ema[i] = alpha * data[i] + (1 - alpha) * ema[i-1], alpha = 2 / (period + 1).
RECURSIVE RatSum(_)
RatSum(xs) == IF xs = <<>> THEN RatInt(0) ELSE RatAdd(xs[1], RatSum(Tail(xs)))

\* alpha * x + (1 - alpha) * prev (line 135) on the integers of an int64
\* array: the products and the sum are doubles, the item assignment
\* truncates toward zero.
EmaStepInt(alpha, x, prev) ==
    DInt(DAdd(DMul(alpha, Pts(x)), DMul(DSub(Pts(1), alpha), Pts(prev))))

RECURSIVE EmaLoop(_, _, _, _, _)
EmaLoop(data, period, dtype, ema, i) ==
    IF i > Len(data) THEN ema
    ELSE EmaLoop(data, period, dtype,
             Append(ema,
                 IF dtype = "int64"
                 THEN RatInt(EmaStepInt(D(2, period + 1), data[i].n, ema[i - 1].n))
                 ELSE RatAdd(RatScale(data[i], 2, period + 1),
                             RatScale(ema[i - 1], period - 1, period + 1))),
             i + 1)

_ema(data, period, dtype) ==
    EmaLoop(data, period, dtype,
        [i \in 1..period |->
            IF i < period THEN RatInt(0)
            ELSE Store(dtype, RatScale(RatSum(SubSeq(data, 1, period)), 1, period))],
        period + 1)

\* ---- macd (lines 73-116) ----
MacdResult(macd_line, signal_line, histogram) ==
    [lists |-> <<macd_line, signal_line, histogram>>, avg_gain |-> <<>>, avg_loss |-> <<>>]

\* Lines 94-101: the fast EMA minus the slow EMA of np.array(prices).
MacdLine(prices, fast_period, slow_period, dtype) ==
    CHOOSE r \in
        {CHOOSE q \in {[i \in 1..Len(prices) |-> RatSub(ema_fast[i], ema_slow[i])]
                         : ema_fast \in {_ema(prices_array, fast_period, dtype)},
                           ema_slow \in {_ema(prices_array, slow_period, dtype)}} : TRUE
            : prices_array \in {[i \in 1..Len(prices) |-> RatInt(prices[i])]}} : TRUE

\* Lines 109-116: the three arrays as lists with the None padding.
MacdFrom(macd_line, signal_line, histogram, slow_period, min_period) ==
    MacdResult(Nones(slow_period - 1) \o Entries(SliceFrom(macd_line, slow_period - 1)),
               Nones(min_period) \o Entries(SliceFrom(signal_line, min_period)),
               Nones(min_period) \o Entries(SliceFrom(histogram, min_period)))

\* The MACD with the histogram taken as signal line minus MACD line.
macd_reversed(prices, fast_period, slow_period, signal_period, dtype) ==
    IF Len(prices) < slow_period
    THEN MacdResult(Nones(Len(prices)), Nones(Len(prices)), Nones(Len(prices)))
    ELSE CHOOSE r \in
           {CHOOSE q \in
               {MacdFrom(macd_line, signal_line,
                         [i \in 1..Len(prices) |-> RatSub(signal_line[i], macd_line[i])],
                         slow_period, slow_period + signal_period - 1)
                   : signal_line \in {_ema(macd_line, signal_period, dtype)}} : TRUE
               : macd_line \in {MacdLine(prices, fast_period, slow_period, dtype)}} : TRUE

macd(prices, fast_period, slow_period, signal_period, dtype) ==
    IF Len(prices) < slow_period
    THEN MacdResult(Nones(Len(prices)), Nones(Len(prices)), Nones(Len(prices)))
    ELSE CHOOSE r \in
           {CHOOSE q \in
               {MacdFrom(macd_line, signal_line,
                         [i \in 1..Len(prices) |-> RatSub(macd_line[i], signal_line[i])],
                         slow_period, slow_period + signal_period - 1)
                   : signal_line \in {_ema(macd_line, signal_period, dtype)}} : TRUE
               : macd_line \in {MacdLine(prices, fast_period, slow_period, dtype)}} : TRUE

\* ---- inputs ----
\* Longest price list tried.
MaxPrices == 7

\* Price lists: a first price and changes of -1, 0 or +2 from one to the next.
RECURSIVE PriceLists(_)
PriceLists(n) ==
    IF n = 0 THEN {<<>>}
    ELSE IF n = 1 THEN {<<20>>}
    ELSE {Append(p, p[Len(p)] + dlt) : p \in PriceLists(n - 1), dlt \in {-1, 0, 2}}

PriceListSet == UNION {PriceLists(n) : n \in 0..MaxPrices}

SmaPeriods == {1, 2, 3}

RsiPeriods == {2, 3}

\* (fast, slow, signal).  Alpha is 1 or 1/2 in the first two; the third has
\* alpha 2/3 and 2/5 and is tried on int64 arrays.
MacdPeriods(dtype) ==
    {<<1, 3, 3>>, <<1, 3, 1>>} \cup (IF dtype = "int64" THEN {<<2, 4, 2>>} ELSE {})

NoIndResult == [lists |-> <<>>, avg_gain |-> <<>>, avg_loss |-> <<>>]

IndIdle ==
    /\ ind_pc = "idle"
    /\ ind_prices = <<>>
    /\ ind_dtype = "float64"
    /\ ind_args = <<>>
    /\ ind_result = NoIndResult

IndInit ==
    /\ ind_pc = "input"
    /\ ind_prices \in PriceListSet
    /\ ind_dtype \in {"int64", "float64"}
    /\ ind_args = <<>>
    /\ ind_result = NoIndResult

Sma ==
    /\ ind_pc = "input"
    /\ \E period \in SmaPeriods :
          /\ ind_args' = <<period>>
          /\ ind_result' = [NoIndResult EXCEPT !.lists = <<sma(ind_prices, period)>>]
    /\ ind_pc' = "sma"
    /\ UNCHANGED <<ind_prices, ind_dtype>>
    /\ UNCHANGED <<kz_vars, ev_vars, eng_vars, ict_vars, fn_vars, smc_vars, rp_vars>>

Rsi ==
    /\ ind_pc = "input"
    /\ \E period \in RsiPeriods :
          /\ ind_args' = <<period>>
          /\ ind_result' = rsi(ind_prices, period, ind_dtype)
    /\ ind_pc' = "rsi"
    /\ UNCHANGED <<ind_prices, ind_dtype>>
    /\ UNCHANGED <<kz_vars, ev_vars, eng_vars, ict_vars, fn_vars, smc_vars, rp_vars>>

Macd ==
    /\ ind_pc = "input"
    /\ \E periods \in MacdPeriods(ind_dtype) :
          /\ ind_args' = periods
          /\ ind_result' = macd(ind_prices, periods[1], periods[2], periods[3], ind_dtype)
    /\ ind_pc' = "macd"
    /\ UNCHANGED <<ind_prices, ind_dtype>>
    /\ UNCHANGED <<kz_vars, ev_vars, eng_vars, ict_vars, fn_vars, smc_vars, rp_vars>>

\* SMCStrategies._rank_and_filter_signals (smc_strategies.py, lines 486-507).
smc_rank_and_filter_signals(signals) ==
    IF signals = <<>> THEN <<>> ELSE UniqueLoop(SortedByKey(signals), 1, <<>>)

MinSmcCandles == 30

IctSignalSet ==
    {BOS_BULLISH, BOS_BEARISH, BULLISH_BREAKER, BEARISH_BREAKER, MM_BUY_MODEL, MM_SELL_MODEL}

SmcSignalSet ==
    {LIQUIDITY_SWEEP_BULLISH, LIQUIDITY_SWEEP_BEARISH, INDUCEMENT_BULLISH, INDUCEMENT_BEARISH,
     BPR_BULLISH, BPR_BEARISH, MITIGATION_BULLISH, MITIGATION_BEARISH}

(***************************************************************************)
(* SMCStrategies (smc_strategies.py).  One detector instance keeps         *)
(* liquidity_pools, inducements and bpr_zones across calls of              *)
(* analyze_candles.  mitigation_zones is written by add_mitigation_zone    *)
(* alone, which nothing in the repository calls: the list stays empty and  *)
(* the two mitigation steps do nothing.  Prices are whole numbers near     *)
(* 1000, so that 0.1% is one point.                                        *)
(***************************************************************************)
LiquidityPool(price_level, type, timestamp) ==
    [price_level |-> price_level, type |-> type, timestamp |-> timestamp,
     sweep_count |-> 0, swept |-> FALSE, sweep_timestamp |-> 0,
     subsequent_rejection |-> FALSE]

\* wick_percentage is the exact fraction.
InducementPattern(direction, inducement_price, reversal_price, timestamp, wick_percentage) ==
    [direction |-> direction, inducement_price |-> inducement_price,
     reversal_price |-> reversal_price, timestamp |-> timestamp,
     wick_percentage |-> wick_percentage, confirmed |-> TRUE]

\* high and low in quarters of a point, equilibrium_price in eighths.
BalancedPriceRange(high, low, start_timestamp, end_timestamp) ==
    [high |-> high, low |-> low, start_timestamp |-> start_timestamp,
     end_timestamp |-> end_timestamp, equilibrium_price |-> high + low,
     confirmed |-> TRUE]

SMCSignalResult(sig, price) ==
    [signal_type |-> sig.signal_type, strength |-> sig.strength,
     confidence |-> sig.confidence, price |-> price]

\* ---- 1. liquidity pools (lines 148-184) ----
\* abs(a - b) / b < 0.001.  The quotient is the double nearest to the exact
\* one, and so equals the literal 0.001 exactly where the exact one does.
within_tolerance(a, b) == Abs(a - b) * 1000 < b

\* A pool of the type is held within tolerance of the level, the tolerance
\* taken from the pool held.
duplicate_pool_of_held(pools, type, level) ==
    \E p \in 1..Len(pools) :
        pools[p].type = type /\ within_tolerance(level, pools[p].price_level)

\* any(abs(p.price_level - level) / level < 0.001 for p of the type)
duplicate_pool(pools, type, level) ==
    \E p \in 1..Len(pools) :
        pools[p].type = type /\ within_tolerance(pools[p].price_level, level)

\* The highs of the candles for buy_side pools, the lows for sell_side.
PoolValues(recent_data, type) ==
    [i \in 1..Len(recent_data) |->
        IF type = "buy_side" THEN recent_data[i].h ELSE recent_data[i].l]

\* for j in range(i + 1, len(values)): the passes of the inner loop for one
\* i.  The first j whose value is within tolerance of values[i] appends
\* the pool unless a pool of the type is held near values[i]; from then on
\* the pool just appended is such a pool, so one i appends at most once.
PoolInnerLoop(recent_data, type, i, pools) ==
    LET values == PoolValues(recent_data, type)
        equal == {j \in (i + 1)..Len(recent_data) : within_tolerance(values[j], values[i])}
    IN  IF equal # {} /\ ~duplicate_pool(pools, type, values[i])
        THEN LET j == CHOOSE k \in equal : \A m \in equal : k <= m
             IN  Append(pools, LiquidityPool(values[i], type, recent_data[j].t))
        ELSE pools

\* for i in range(len(values)): the passes for i up to last, one after the
\* other, each starting from the list the pass before it left.  The passes
\* are taken as a first and a second half.
RECURSIVE PoolLoop(_, _, _, _, _)
PoolLoop(recent_data, type, i, last, pools) ==
    IF i > last THEN pools
    ELSE IF i = last THEN PoolInnerLoop(recent_data, type, i, pools)
    ELSE CHOOSE left \in {PoolLoop(recent_data, type, (i + last) \div 2 + 1, last, held) :
                             held \in {PoolLoop(recent_data, type, i, (i + last) \div 2, pools)}} : TRUE

PoolWindow == 20

_detect_liquidity_pools(df, pools) ==
    IF Len(df) < PoolWindow THEN pools
    ELSE CHOOSE left \in {PoolLoop(recent_data, "sell_side", 1, PoolWindow, with_buy_side) :
                             recent_data \in {df_tail(df, PoolWindow)},
                             with_buy_side \in {PoolLoop(df_tail(df, PoolWindow), "buy_side", 1,
                                                         PoolWindow, pools)}} : TRUE

\* ---- liquidity sweeps (lines 186-260) ----
\* candle > pool.price_level * 1.001: at the level 1000 the product is the
\* double just below 1001, and a high of 1001 is above it.
above_level(high, price_level) == ExceedsPct(high, price_level, 1001, 1000)

\* candle < pool.price_level * 0.999
below_level(low, price_level) == BelowPct(low, price_level, 999, 1000)

SweepWindow == 5

\* The pool is swept by this call.
sweeps_pool(recent_data, current_price, pool) ==
    /\ ~pool.swept
    /\ \/ /\ pool.type = "buy_side"
          /\ \E k \in 1..Len(recent_data) : above_level(recent_data[k].h, pool.price_level)
          /\ current_price < pool.price_level
       \/ /\ pool.type = "sell_side"
          /\ \E k \in 1..Len(recent_data) : below_level(recent_data[k].l, pool.price_level)
          /\ current_price > pool.price_level

\* for pool in self.liquidity_pools: the pools as the loop leaves them.
SweptPools(df, current_price, pools) ==
    [p \in 1..Len(pools) |->
        IF sweeps_pool(df_tail(df, SweepWindow), current_price, pools[p])
        THEN [pools[p] EXCEPT !.swept = TRUE,
                              !.sweep_timestamp = df[Len(df)].t,
                              !.subsequent_rejection = TRUE]
        ELSE pools[p]]

\* The results the loop appends, from pool p on.
RECURSIVE SweepResults(_, _, _, _)
SweepResults(df, current_price, pools, p) ==
    IF p > Len(pools) THEN <<>>
    ELSE (IF sweeps_pool(df_tail(df, SweepWindow), current_price, pools[p])
          THEN <<SMCSignalResult(IF pools[p].type = "buy_side"
                                 THEN LIQUIDITY_SWEEP_BEARISH
                                 ELSE LIQUIDITY_SWEEP_BULLISH, current_price)>>
          ELSE <<>>) \o SweepResults(df, current_price, pools, p + 1)

\* A sweep step that drops the pools it has swept from the list.
_detect_liquidity_sweeps_dropping(df, current_price, pools) ==
    [liquidity_pools |-> SelectSeq(SweptPools(df, current_price, pools), LAMBDA pool : ~pool.swept),
     results |-> SweepResults(df, current_price, pools, 1)]

_detect_liquidity_sweeps(df, current_price, pools) ==
    [liquidity_pools |-> SweptPools(df, current_price, pools),
     results |-> SweepResults(df, current_price, pools, 1)]

\* ---- 2. inducements (lines 262-346) ----
\* for i in range(2, len(recent)).  A candle that passes either test is
\* appended to self.inducements; the SMCSignalResult built next formats
\* wick_percentage, a name the function never binds, so the call leaves
\* with a NameError and no result of this step is ever returned.
RECURSIVE InducementLoop(_, _, _)
InducementLoop(recent, i, found) ==
    IF i > Len(recent)
    THEN [inducements |-> found, raised |-> FALSE, results |-> <<>>]
    ELSE LET candle == recent[i]
             body_size == Abs(candle.c - candle.o)
             lower_wick == Min(candle.o, candle.c) - candle.l
             upper_wick == candle.h - Max(candle.o, candle.c)
         IN  IF lower_wick > body_size * 2 /\ candle.c > candle.o
             THEN [inducements |->
                       Append(found, InducementPattern("bullish", candle.l, candle.c, candle.t,
                                         Rat(lower_wick * 100, candle.h - candle.l))),
                   raised |-> TRUE, results |-> <<>>]
             ELSE IF upper_wick > body_size * 2 /\ candle.c < candle.o
             THEN [inducements |->
                       Append(found, InducementPattern("bearish", candle.h, candle.c, candle.t,
                                         Rat(upper_wick * 100, candle.h - candle.l))),
                   raised |-> TRUE, results |-> <<>>]
             ELSE InducementLoop(recent, i + 1, found)

_detect_inducements(df, found) ==
    IF Len(df) < 5 THEN [inducements |-> found, raised |-> FALSE, results |-> <<>>]
    ELSE InducementLoop(df_tail(df, 5), 3, found)

\* ---- 3. balanced price ranges (lines 348-415) ----
\* The k-th smallest of the values.
KthSmallest(values, k) ==
    CHOOSE v \in {values[i] : i \in DOMAIN values} :
        /\ Cardinality({i \in DOMAIN values : values[i] < v}) < k
        /\ Cardinality({i \in DOMAIN values : values[i] <= v}) >= k

\* np.percentile(values, 75) and np.percentile(values, 25) of 10 values,
\* times 4: linear interpolation at the positions 6.75 and 2.25.
percentile_75(values) == KthSmallest(values, 7) + 3 * KthSmallest(values, 8)

percentile_25(values) == 3 * KthSmallest(values, 3) + KthSmallest(values, 4)

_detect_bpr_zones(df, current_price, zones) ==
    IF Len(df) < 10 THEN [bpr_zones |-> zones, results |-> <<>>]
    ELSE CHOOSE r \in
        {IF /\ CmpPct(zone_high, 4, zone_low, 4, 101, 100) > 0
            /\ CmpPct(current_price, 1, zone_low, 4, 995, 1000) >= 0
            /\ CmpPct(current_price, 1, zone_high, 4, 1005, 1000) <= 0
         THEN [bpr_zones |-> Append(zones, BalancedPriceRange(zone_high, zone_low,
                                               recent[1].t, recent[Len(recent)].t)),
               results |-> <<SMCSignalResult(IF current_price * 8 > zone_high + zone_low
                                             THEN BPR_BULLISH ELSE BPR_BEARISH,
                                             current_price)>>]
         ELSE [bpr_zones |-> zones, results |-> <<>>]
            : recent \in {df_tail(df, 10)},
              zone_high \in {percentile_75(PoolValues(df_tail(df, 10), "buy_side"))},
              zone_low \in {percentile_25(PoolValues(df_tail(df, 10), "sell_side"))}} : TRUE

\* ---- analyze_candles (lines 111-146) ----
\* The detector state is st = [liquidity_pools, inducements, bpr_zones].
\* The result carries the state the call leaves behind, how it ended, the
\* pools as the sweep step found them, what the steps raised and the ranked
\* list returned.
smc_analyze_candles(candles, st) ==
    IF Len(candles) < MinSmcCandles
    THEN [st |-> st, outcome |-> "returned", analyzed |-> FALSE,
          pools_at_sweep |-> st.liquidity_pools, sweep_results |-> <<>>,
          raised |-> <<>>, signals |-> <<>>]
    ELSE CHOOSE r \in
        {CHOOSE rr \in
            {IF inducement.raised
             THEN [st |-> [liquidity_pools |-> sweep.liquidity_pools,
                           inducements |-> inducement.inducements,
                           bpr_zones |-> st.bpr_zones],
                   outcome |-> "NameError", analyzed |-> TRUE,
                   pools_at_sweep |-> pools1, sweep_results |-> sweep.results,
                   raised |-> <<>>, signals |-> <<>>]
             ELSE CHOOSE rrr \in
                     {[st |-> [liquidity_pools |-> sweep.liquidity_pools,
                               inducements |-> inducement.inducements,
                               bpr_zones |-> bpr.bpr_zones],
                       outcome |-> "returned", analyzed |-> TRUE,
                       pools_at_sweep |-> pools1, sweep_results |-> sweep.results,
                       raised |-> sweep.results \o inducement.results \o bpr.results,
                       signals |-> smc_rank_and_filter_signals(
                                       sweep.results \o inducement.results \o bpr.results)]
                        : bpr \in {_detect_bpr_zones(candles, current_price, st.bpr_zones)}} : TRUE
                : sweep \in {_detect_liquidity_sweeps(candles, current_price, pools1)},
                  inducement \in {_detect_inducements(candles, st.inducements)}} : TRUE
            : current_price \in {candles[Len(candles)].c},
              pools1 \in {_detect_liquidity_pools(candles, st.liquidity_pools)}} : TRUE

\* ---- the series given to the detector ----
\* Candles of a full series.
SmcLen == 60

\* A series of n hourly candles: flat at 1000, then the candles of tail,
\* each given as <<open, high, low, close>>.
SmcSeries(n, tail) == OhlcSeries(n, 1000, tail)

SmcTails ==
    { <<>>,
      \* a rise above the equal highs at 1001 that closes back below them
      << <<1000, 1004, 999, 1003>>, <<1003, 1004, 999, 1000>> >>,
      \* a drop below the equal lows at 999 that closes back above them
      << <<1000, 1001, 996, 997>>, <<997, 1001, 996, 1000>> >>,
      \* a spike to 1006, then two equal highs at 1003
      << <<1000, 1006, 999, 1000>>, <<1000, 1003, 999, 1000>>, <<1000, 1003, 999, 1000>> >>,
      \* a long lower wick with a close above the open, last candle
      << <<1000, 1002, 990, 1001>> >>,
      \* a long upper wick with a close below the open, then a flat candle
      << <<1000, 1010, 999, 999>>, FlatAt(1000) >>,
      \* the same lower wick four candles from the end, where no scan looks
      << <<1000, 1002, 990, 1001>> >> \o Repeat(FlatAt(1000), 3),
      \* a long lower wick on a candle that closes at its open
      << <<1000, 1001, 990, 1000>> >>,
      \* a lower wick of exactly twice the body
      << <<1000, 1003, 996, 1002>> >>,
      \* ten candles ranging over 1.5%, closing in the upper / lower half
      Repeat(<<1005, 1015, 1000, 1008>>, 10),
      Repeat(<<1012, 1015, 1000, 1004>>, 10),
      \* the whole window one point lower
      Repeat(FlatAt(999), PoolWindow),
      \* a drop below the equal lows at 999, then three candles ranging over 1.5%
      << <<1000, 1001, 996, 997>>, <<1005, 1015, 1000, 1008>>, <<1012, 1015, 1000, 1004>>,
         <<1012, 1015, 1000, 1004>> >> }

SmcSeriesSet ==
    {SmcSeries(SmcLen, tail) : tail \in SmcTails}
        \cup {SmcSeries(MinSmcCandles - 1, << <<1000, 1004, 999, 1003>>, <<1003, 1004, 999, 1000>> >>)}

NoSmcCall ==
    [candles |-> <<>>, outcome |-> "none", analyzed |-> FALSE, pools_at_sweep |-> <<>>,
     sweep_results |-> <<>>, raised |-> <<>>, signals |-> <<>>]

\* SMCStrategies.__init__
SmcInit ==
    /\ liquidity_pools = <<>>
    /\ inducements = <<>>
    /\ bpr_zones = <<>>
    /\ smc_calls = 0
    /\ smc_last = NoSmcCall

\* One call of analyze_candles on the detector; a call that raises leaves
\* behind what it had written before the exception.
AnalyzeCandlesSmc ==
    /\ ict_calls + smc_calls < MaxCalls
    /\ \E candles \in SmcSeriesSet :
          \E r \in {smc_analyze_candles(candles,
                        [liquidity_pools |-> liquidity_pools, inducements |-> inducements,
                         bpr_zones |-> bpr_zones])} :
              /\ liquidity_pools' = r.st.liquidity_pools
              /\ inducements' = r.st.inducements
              /\ bpr_zones' = r.st.bpr_zones
              /\ smc_last' = [candles |-> candles, outcome |-> r.outcome,
                              analyzed |-> r.analyzed,
                              pools_at_sweep |-> r.pools_at_sweep,
                              sweep_results |-> r.sweep_results,
                              raised |-> r.raised, signals |-> r.signals]
    /\ smc_calls' = smc_calls + 1
    /\ UNCHANGED <<kz_vars, ev_vars, eng_vars, ict_vars, ind_vars, fn_vars, rp_vars>>

(***************************************************************************)
(* SignalEngine.generate_signal on the engine's detector instances.        *)
(*                                                                         *)
(* The analysis candles are given candle by candle.  What the code gets    *)
(* out of them with numpy's polyfit, std and mean (the market regime and   *)
(* the spread test of the false-signal risk) comes with the series, as the *)
(* value the code computes for it.  The volume of the analysis candles is  *)
(* a column of its own beside them: volume[i] is the v of candles[i].       *)
(***************************************************************************)
\* ---- ICTPhase1Enhancements.calculate_pd_arrays (lines 184-283) ----
\* The location of the last close in the range of the last 50 candles, and
\* whether it lies in the OTE band.
calculate_pd_arrays(candles) ==
    LET unknown == [current_location |-> "unknown", is_in_ote |-> FALSE]
    IN  IF Len(candles) < 50 THEN unknown
        ELSE CHOOSE pd_info \in
                {LET range_size == high - low
                     premium_bottom == DSub(Pts(high), DMul(Pts(range_size), D(50, 100)))
                     discount_top   == DAdd(Pts(low), DMul(Pts(range_size), D(50, 100)))
                     ote_79 == DSub(Pts(high), DMul(Pts(range_size), D(79, 100)))
                     ote_62 == DSub(Pts(high), DMul(Pts(range_size), D(62, 100)))
                 IN  IF range_size = 0 THEN unknown
                     ELSE [current_location |->
                               IF DLt(premium_bottom, current_price) THEN "premium"
                               ELSE IF DLt(current_price, discount_top) THEN "discount"
                               ELSE "equity",
                           is_in_ote |-> DLe(ote_79, current_price) /\ DLe(current_price, ote_62)]
                    : high \in {CHOOSE m \in {SeqMax(highs) : highs \in
                                    {[i \in 1..50 |-> recent_candles[i].h] :
                                        recent_candles \in {df_tail(candles, 50)}}} : TRUE},
                      low \in {CHOOSE m \in {SeqMin(lows) : lows \in
                                    {[i \in 1..50 |-> recent_candles[i].l] :
                                        recent_candles \in {df_tail(candles, 50)}}} : TRUE},
                      current_price \in {Pts(candles[Len(candles)].c)}} : TRUE

\* ---- ICTStrategies.get_liquidity_pools (lines 456-473) ----
\* The two dicts are keyed by the block's timestamp, so of the blocks of one
\* type with one timestamp the last one gives the level; held as the sets
\* of their levels.
get_liquidity_pools(blocks) ==
    LET kept(type) ==
            {i \in 1..Len(blocks) :
                /\ blocks[i].type = type
                /\ \A j \in (i + 1)..Len(blocks) :
                       blocks[j].type = type => blocks[j].timestamp # blocks[i].timestamp}
    IN  [buy_side  |-> {blocks[i].high : i \in kept("bearish")},
         sell_side |-> {blocks[i].low : i \in kept("bullish")}]

Sweep(expectation, strength) == [expectation |-> expectation, strength |-> strength]

\* The sum of xs[lo..hi], taken in halves.
RECURSIVE ColumnSum(_, _, _)
ColumnSum(xs, lo, hi) ==
    IF lo > hi THEN 0
    ELSE IF lo = hi THEN xs[lo]
    ELSE ColumnSum(xs, lo, (lo + hi) \div 2) + ColumnSum(xs, (lo + hi) \div 2 + 1, hi)

\* The mean of a non-empty column of whole numbers as a double: the sum is
\* exact and the division rounds.
mean(xs) == CHOOSE m \in {D(ColumnSum(v, 1, Len(v)), Len(v)) : v \in {xs}} : TRUE

\* ---- ICTPhase1Enhancements.detect_liquidity_sweeps (lines 289-372) ----
\* volume: the v of each candle.  avg_volume is the mean over the last 10
\* candles, and a sweep's candle with candle.v > avg_volume gives strength
\* 95.  A sweep is held by its expectation and strength.
detect_liquidity_sweeps(candles, pools, volume) ==
    IF Len(candles) < 10 THEN {}
    ELSE LET recent_candles == df_tail(candles, 10)
             volumes == df_tail(volume, 10)
             avg_volume == mean(volumes)
             strength(i) == Min(95, 75 + (IF DLt(avg_volume, Pts(volumes[i])) THEN 20 ELSE 0))
             is_bearish_reversal(i) ==
                 \/ recent_candles[i].c < recent_candles[i].o
                 \/ i > 1 /\ recent_candles[i].c < recent_candles[i - 1].c
             is_bullish_reversal(i) ==
                 \/ recent_candles[i].c > recent_candles[i].o
                 \/ i > 1 /\ recent_candles[i].c > recent_candles[i - 1].c
             \* candle.h >= pool_level * 1.001 / candle.l <= pool_level * 0.999
             touches_buy_side(i) ==
                 \E pool_level \in pools.buy_side :
                     CmpPct(recent_candles[i].h, 1, pool_level, 1, 1001, 1000) >= 0
             touches_sell_side(i) ==
                 \E pool_level \in pools.sell_side :
                     CmpPct(recent_candles[i].l, 1, pool_level, 1, 999, 1000) <= 0
         IN  {Sweep("bearish_move", strength(i)) :
                  i \in {k \in 1..10 : touches_buy_side(k) /\ is_bearish_reversal(k)}}
             \cup {Sweep("bullish_move", strength(i)) :
                  i \in {k \in 1..10 : touches_sell_side(k) /\ is_bullish_reversal(k)}}

\* ---- AIEnhancer._calculate_false_signal_risk, low volume (lines 320-324) ----
\* recent_volume < avg_volume * 0.5, with the mean of the last 5 candles (of
\* all of them when there are fewer) and the mean of the whole column.  The
\* means of an empty column are nan, and no comparison with nan holds.
low_volume(volume) ==
    /\ Len(volume) > 0
    /\ \E recent_volume \in {mean(df_tail(volume, 5))}, avg_volume \in {mean(volume)} :
           DLt(recent_volume, DMul(avg_volume, D(1, 2)))

\* ---- AIEnhancer._calculate_false_signal_risk, choppy market (lines 326-341) ----
\* for i in range(1, min(10, len(closes))): the direction of each of the
\* last 9 moves, and the number of changes from one move to the next.
choppy_market(candles) ==
    LET n == Len(candles)
        direction(i) == IF candles[n + 1 - i].c > candles[n - i].c THEN 1 ELSE -1
        direction_changes == Cardinality({i \in 2..9 : direction(i) # direction(i - 1)})
    IN  n >= 10 /\ direction_changes >= 4

\* ---- generate_signal (lines 284-486) ----
\* What the phase-1 step and the AI scorer read from the analysis candles
\* and from the order blocks the ICT detector holds after its call.
AnalysisFeatures(r, blocks) ==
    CHOOSE features \in
        {[last_ts      |-> IF Len(r.candles) = 0 THEN 0 ELSE r.candles[Len(r.candles)].t,
          pd_location  |-> pd_info.current_location,
          pd_in_ote    |-> pd_info.is_in_ote,
          sweeps       |-> detect_liquidity_sweeps(r.candles, get_liquidity_pools(blocks),
                                                   r.volume),
          regime       |-> r.regime,
          low_volume   |-> low_volume(r.volume),
          choppy       |-> choppy_market(r.candles),
          wide_spreads |-> r.wide_spreads]
            : pd_info \in {calculate_pd_arrays(r.candles)}} : TRUE

\* The SMC detector of a call that ended before line 320.
NotCalled(smc_st) ==
    [st |-> smc_st, outcome |-> "none", analyzed |-> FALSE,
     pools_at_sweep |-> smc_st.liquidity_pools, sweep_results |-> <<>>,
     raised |-> <<>>, signals |-> <<>>]

\* The call from line 309 on, the ICT detector having been called.
AfterIct(r, ict, smc_st) ==
    IF ict.outcome = "ValueError"
    THEN [ict |-> ict, smc |-> NotCalled(smc_st), response |-> Raised("ValueError")]
    ELSE CHOOSE call \in
            {[ict |-> ict, smc |-> smc,
              response |->
                  generate_signal_from(r, features,
                      [raised |-> FALSE, signals |-> ict.signals],
                      [raised |-> smc.outcome = "NameError", signals |-> smc.signals])]
                : smc \in {smc_analyze_candles(r.candles, smc_st)},
                  features \in {AnalysisFeatures(r, ict.st.order_blocks)}} : TRUE

\* generate_signal(symbol, candles_15m, candles_1h, candles_1d) on an engine
\* whose detectors are in the states ict_st and smc_st: what the two
\* detector calls leave behind, and the response.  A ValueError out of the
\* ICT detector ends the call before the SMC detector is called.
generate_signal(r, ict_st, smc_st) ==
    CHOOSE res \in {AfterIct(r, ict, smc_st) :
                       ict \in {analyze_candles(r.candles, ict_st)}} : TRUE

\* ---- inputs ----
\* Indicator values at the last index of a series of 200 candles or more;
\* every comparison of evaluate_timeframe comes out on them as on the
\* closes of the series they are given for.
Bull75 == [close |-> 101, sma50 |-> 100, sma200 |-> 99, rsi |-> 580, macd_line |-> 1, macd_signal |-> 0]

Bull65 == [Bull75 EXCEPT !.rsi = 640]

Bull35 == [Bull75 EXCEPT !.rsi = 500, !.macd_line = -1]

Bull25 == [Bull75 EXCEPT !.rsi = 627, !.macd_line = -1]

Bear75 == [close |-> 99, sma50 |-> 100, sma200 |-> 101, rsi |-> 420, macd_line |-> -1, macd_signal |-> 0]

Bear35 == [Bear75 EXCEPT !.macd_line = 1]

\* len(candles) of a series long enough for every stage.
FullLen == 250

\* A series that is not the analysis series is read through its length and
\* its last indicator values alone.
Series(n, ind) == [n |-> n, ind |-> ind]

LongSeries == {Series(FullLen, i) : i \in {Bull75, Bull35, Bull25, Bear35, Bear75}}

\* The analysis series: its candles, its last indicator values, and what
\* _classify_market_regime and the spread test
\* spreads.tail(3).mean() > spreads.mean() * 1.5 give on its candles.
Analysis(candles, ind, regime, wide_spreads) ==
    [candles |-> candles, ind |-> ind, regime |-> regime, wide_spreads |-> wide_spreads]

\* A volume column by its shape: v on the last k candles (on all of them
\* when there are no more than k), 1000 on the candles before.
Volume(k, v) == [k |-> k, v |-> v]

VolumeColumn(vol, n) == [i \in 1..n |-> IF i > n - vol.k THEN vol.v ELSE 1000]

\* The same candles with the last one stamped at end, hourly.
EndingAt(candles, end) ==
    [i \in 1..Len(candles) |-> [candles[i] EXCEPT !.t = end - 3600 * (Len(candles) - i)]]

Request(s15, s1h, s1d, x, vol, now) ==
    LET n == Len(x.candles)
    IN  [n15 |-> s15.n, n1h |-> s1h.n, n1d |-> s1d.n,
         ind15 |-> s15.ind, ind1h |-> s1h.ind, ind1d |-> s1d.ind,
         candles |-> x.candles,
         regime |-> IF n < 20 THEN "unknown" ELSE x.regime,
         wide_spreads |-> x.wide_spreads,
         volume |-> VolumeColumn(vol, n),
         now |-> now]

\* Short series: below the SMC minimum (30), the ICT and PD-array minimum
\* (50), the regime minimum (20), the choppiness minimum (10); the last of
\* them has more than the 5 candles of the recent volume and no more than
\* the 10 of the sweep lookback.
Short15m == 25

Short1hA == 15

Short1hB == 40

Short1hC == 5

Short1hD == 8

Ramp(base, step, n) == [i \in 1..n |-> base + step * i]

\* Closes that rise (sign 1) or fall (sign -1) along p*i + i*i/q, under a
\* swing that repeats every Len(swing) candles.
TrendCloses(base, sign, p, q, swing, phase) ==
    [i \in 1..FullLen |->
        base + sign * (p * i + (i * i) \div q + swing[((i + phase) % Len(swing)) + 1])]

WithLow(candles, k, low) == [candles EXCEPT ![k].l = low]

\* Series of 49 to 60 candles, with the market regime and the spread test
\* the code computes on each.
DetectorAnalysis ==
    { Analysis(IctSeries(IctLen, <<>>), NoInd, "ranging", FALSE),
      Analysis(IctSeries(IctLen, <<103, 103, 103>>), NoInd, "volatile", FALSE),
      Analysis(IctSeries(IctLen, <<97, 97, 97>>), NoInd, "volatile", TRUE),
      Analysis(IctSeries(IctLen, <<103, 100>>), NoInd, "volatile", TRUE),
      Analysis(IctSeries(IctLen, <<103, 100, 110>>), NoInd, "volatile", TRUE),
      Analysis(IctSeries(IctLen, <<103, 100, 90>>), NoInd, "volatile", TRUE),
      Analysis(IctSeries(IctLen, <<109, 109, 106, 111>>), NoInd, "volatile", TRUE),
      Analysis(IctSeries(IctLen, Zig(6)), NoInd, "volatile", TRUE),
      Analysis(IctSeries(IctLen, Zig(6) \o <<110>>), NoInd, "volatile", TRUE),
      Analysis(IctSeries(IctLen, Zig(12)), NoInd, "ranging", TRUE),
      Analysis(IctSeries(IctLen, Zig(12) \o <<110>>), NoInd, "ranging", TRUE),
      Analysis(IctSeries(IctLen, Zig(12) \o <<90>>), NoInd, "ranging", TRUE),
      Analysis(IctSeries(IctLen, <<102, 104, 106, 108, 107, 106, 106>>), NoInd, "volatile", FALSE),
      Analysis(IctSeries(IctLen, <<103, 100, 106, 101>>), NoInd, "volatile", TRUE),
      Analysis(IctSeries(IctLen, <<97, 100, 94, 99>>), NoInd, "volatile", TRUE),
      Analysis(IctSeries(IctLen, <<103, 100, 106, 106>>), NoInd, "volatile", TRUE),
      Analysis(IctSeries(IctLen, <<103, 106, 109, 104>>), NoInd, "volatile", TRUE),
      Analysis(IctSeries(IctLen, <<97, 94, 91>>), NoInd, "volatile", TRUE),
      Analysis(IctSeries(MinIctCandles - 1, <<103, 100, 110>>), NoInd, "volatile", TRUE),
      Analysis(GapAtThousand, NoInd, "volatile", FALSE),
      Analysis(SwingAtThousand, NoInd, "volatile", FALSE),
      Analysis(SwingUnderSweep, NoInd, "volatile", FALSE),
      Analysis(CandlesFromCloses(Ramp(1000, 1, IctLen)), NoInd, "ranging", FALSE),
      Analysis(CandlesFromCloses(Ramp(1000, 2, IctLen)), NoInd, "trend_up", FALSE),
      Analysis(CandlesFromCloses(Ramp(1000, 5, IctLen)), NoInd, "strong_trend_up", FALSE),
      Analysis(CandlesFromCloses(Ramp(1000, -1, IctLen)), NoInd, "trend_down", FALSE),
      Analysis(CandlesFromCloses(Ramp(1000, -3, IctLen)), NoInd, "strong_trend_down", FALSE),
      Analysis(SmcSeries(SmcLen, <<>>), NoInd, "ranging", FALSE),
      Analysis(SmcSeries(SmcLen, << <<1000, 1004, 999, 1003>>, <<1003, 1004, 999, 1000>> >>), NoInd, "volatile", TRUE),
      Analysis(SmcSeries(SmcLen, << <<1000, 1001, 996, 997>>, <<997, 1001, 996, 1000>> >>), NoInd, "volatile", TRUE),
      Analysis(SmcSeries(SmcLen, << <<1000, 1006, 999, 1000>>, <<1000, 1003, 999, 1000>>, <<1000, 1003, 999, 1000>> >>), NoInd, "volatile", TRUE),
      Analysis(SmcSeries(SmcLen, << <<1000, 1002, 990, 1001>> >>), NoInd, "volatile", TRUE),
      Analysis(SmcSeries(SmcLen, << <<1000, 1010, 999, 999>>, FlatAt(1000) >>), NoInd, "volatile", TRUE),
      Analysis(SmcSeries(SmcLen, << <<1000, 1002, 990, 1001>> >> \o Repeat(FlatAt(1000), 3)), NoInd, "volatile", FALSE),
      Analysis(SmcSeries(SmcLen, << <<1000, 1001, 990, 1000>> >>), NoInd, "volatile", TRUE),
      Analysis(SmcSeries(SmcLen, << <<1000, 1003, 996, 1002>> >>), NoInd, "volatile", TRUE),
      Analysis(SmcSeries(SmcLen, Repeat(<<1005, 1015, 1000, 1008>>, 10)), NoInd, "ranging", TRUE),
      Analysis(SmcSeries(SmcLen, Repeat(<<1012, 1015, 1000, 1004>>, 10)), NoInd, "ranging", TRUE),
      Analysis(SmcSeries(SmcLen, Repeat(FlatAt(999), PoolWindow)), NoInd, "ranging", FALSE),
      Analysis(SmcSeries(MinSmcCandles - 1, << <<1000, 1004, 999, 1003>>, <<1003, 1004, 999, 1000>> >>), NoInd, "volatile", TRUE) }

\* 25 candles whose closes alternate between 1000 and 1001 at the end, the
\* last one with a range of 22 against the 2 of the others.
ChoppyShort ==
    OhlcSeries(Short15m, 1000,
        << FlatAt(1001), FlatAt(1000), FlatAt(1001), FlatAt(1000), FlatAt(1001),
           <<1001, 1012, 990, 1000>> >>)

\* Series too short for the ICT detector; below 20 candles the regime is
\* UNKNOWN.
ShortAnalysis ==
    { Analysis(IctSeries(Short15m, Zig(12)), NoInd, "ranging", FALSE),
      Analysis(IctSeries(Short1hA, Zig(6)), NoInd, "unknown", TRUE),
      Analysis(IctSeries(Short1hB, Zig(12)), NoInd, "ranging", TRUE),
      Analysis(IctSeries(Short1hC, <<>>), NoInd, "unknown", FALSE),
      Analysis(IctSeries(Short1hD, <<>>), NoInd, "unknown", FALSE),
      Analysis(ChoppyShort, NoInd, "volatile", TRUE) }

\* Series of 250 candles; the indicator values at their last index are of
\* the class named with them.
Up75 ==
    Analysis(CandlesFromCloses(TrendCloses(10000, 1, 3, 100, <<0, 30, 60, 30, 60>>, 3)), Bull75, "ranging", FALSE)

Up65 ==
    Analysis(CandlesFromCloses(TrendCloses(10000, 1, 3, 50, <<0, 40, 80, 40, 70>>, 3)), Bull65, "ranging", FALSE)

Up35 ==
    Analysis(CandlesFromCloses(TrendCloses(10000, 1, 3, 50, <<0, 40, 80, 40, 70>>, 0)), Bull35, "ranging", FALSE)

Down75 ==
    Analysis(CandlesFromCloses(TrendCloses(14000, -1, 3, 100, <<0, 30, 60, 30, 60>>, 3)), Bear75, "ranging", FALSE)

Down35 ==
    Analysis(CandlesFromCloses(TrendCloses(14000, -1, 3, 50, <<0, 40, 80, 40, 70>>, 0)), Bear35, "ranging", FALSE)

\* Up75 with a long lower wick on its last candle but one, which closes
\* above its open.
Up75Wick ==
    Analysis(WithLow(Up75.candles, FullLen - 1, 11312), Bull75, "volatile", FALSE)

Empty == Series(0, NoInd)

NoAnalysis == Analysis(<<>>, NoInd, "unknown", FALSE)

\* The series of a timeframe that is given candle by candle.
Timeframe(x) == Series(Len(x.candles), x.ind)

At(x, end) == [x EXCEPT !.candles = EndingAt(x.candles, end)]

Series15m == LongSeries \cup {Empty, Series(Short15m, NoInd)}

Series1d == LongSeries \cup {Empty}

\* 2025-01-26 at 08:30, 02:00 and 22:00 UTC: London (03:30 EST), the Asian
\* session (21:00 EST of the day before) and off-hours (17:00 EST) for the
\* detector; london_open, asian_session and off_hours for the phase-1 table.
KzTimes == {Day0 + 8 * 3600 + 30 * 60, Day0 + 2 * 3600, Day0 + 22 * 3600}

\* Times of the last analysis candle: one in each of the windows
\* asian_session, london_open, ny_open and london_close of the phase-1
\* table, and one outside of them all.
EndTimes ==
    {Day0 + 2 * 3600, Day0 + 8 * 3600 + 30 * 60, Day0 + 12 * 3600,
     Day0 + 16 * 3600 + 30 * 60, Day0 + 22 * 3600}

\* Even volume.
QuietVolume == Volume(0, 1000)

\* A hundredth of the volume on the last 10 candles; no volume on the last
\* 5; twice the volume on the last 4.
LowOnLastTen == Volume(10, 10)

NoneOnLastFive == Volume(5, 0)

SpikeOnLastFour == Volume(4, 2000)

VolumeSet == {QuietVolume, LowOnLastTen, SpikeOnLastFour}

ShortVolumeSet == {QuietVolume, LowOnLastTen, NoneOnLastFive}

\* Calls whose 1h series is too short for the detectors, under every pair
\* of 15m and 1d series.
VoteRequests ==
    {Request(s15, Timeframe(x), s1d, At(x, end), vol, now) :
        s15 \in Series15m, s1d \in Series1d,
        x \in {s \in ShortAnalysis : Len(s.candles) = Short15m},
        end \in EndTimes, vol \in {QuietVolume, LowOnLastTen}, now \in KzTimes}
    \cup
    {Request(s15, Timeframe(x), s1d, At(x, Day0 + 22 * 3600), vol, now) :
        s15 \in {Empty, Series(FullLen, Bull75)}, s1d \in {Empty, Series(FullLen, Bull75)},
        x \in ShortAnalysis, vol \in ShortVolumeSet, now \in KzTimes}

\* Calls with a 1h series of 250 candles.
TrendRequests ==
    {Request(s15, Timeframe(x), s1d, x, QuietVolume, now) :
        s15 \in {Empty, Series(FullLen, Bull75), Series(FullLen, Bear75)},
        s1d \in {Empty, Series(FullLen, Bull75), Series(FullLen, Bull35), Series(FullLen, Bear75)},
        x \in {Up75, Up65, Up35, Down75, Down35}, now \in KzTimes}

\* Calls with a 1h series on which the detectors find something.
DetectorRequests ==
    {Request(p[1], Timeframe(x), p[2], x, vol, now) :
        p \in {<<Series(FullLen, Bull75), Series(FullLen, Bull75)>>,
               <<Series(FullLen, Bear75), Series(FullLen, Bear75)>>,
               <<Empty, Series(FullLen, Bull35)>>},
        x \in DetectorAnalysis, vol \in VolumeSet, now \in KzTimes}

\* Calls without a 1h series: the 15m series is the analysis series.
FallbackRequests ==
    {Request(Timeframe(x), Empty, s1d, x, QuietVolume, now) :
        s1d \in {Empty, Series(FullLen, Bull75), Series(FullLen, Bear75)},
        x \in {At(s, Day0 + 16 * 3600 + 30 * 60) : s \in ShortAnalysis}
                 \cup {Analysis(IctSeries(IctLen, <<103, 100>>), NoInd, "volatile", TRUE), Up75},
        now \in KzTimes}

\* Calls without a 15m and without a 1h series.
EmptyRequests ==
    {Request(Empty, Empty, s1d, NoAnalysis, QuietVolume, now) : s1d \in Series1d, now \in KzTimes}

RequestSet ==
    VoteRequests \cup TrendRequests \cup DetectorRequests \cup FallbackRequests \cup EmptyRequests

\* Three 250-candle series that all trend upward: on each timeframe
\* SMA50 > SMA200, the last close above SMA50, RSI between 55 and 65, the
\* MACD line above its signal line.  The indicators are computed from the
\* closes alone, so the highs and lows of the candles stay open.
UptrendSeries == {Series(FullLen, i) : i \in {Bull75, Bull65}}

UptrendRequestSet ==
    {Request(s15, Timeframe(x), s1d, x, vol, now) :
        s15 \in UptrendSeries, s1d \in UptrendSeries,
        x \in {Up75, Up65, Up75Wick, At(Up75, Day0 + 8 * 3600 + 30 * 60)},
        vol \in VolumeSet, now \in KzTimes}

NoRequest == Request(Empty, Empty, Empty, NoAnalysis, QuietVolume, 0)

NoOut == [Raised("none") EXCEPT !.outcome = "unset"]

NoAgg ==
    [recommendation |-> "unset", strength |-> 0,
     breakdown |-> [d1 |-> "none", h1 |-> "none", m15 |-> "none"],
     confluence_bonus |-> 0]

EngIdle ==
    /\ eng_pc = "idle"
    /\ rq = NoRequest
    /\ out = NoOut
    /\ agg = NoAgg

EngInit ==
    /\ eng_pc = "request"
    /\ rq \in RequestSet
    /\ out = NoOut
    /\ agg = NoAgg

UptrendInit ==
    /\ eng_pc = "request"
    /\ rq \in UptrendRequestSet
    /\ out = NoOut
    /\ agg = NoAgg

\* What one call of generate_signal leaves on the two detectors of the
\* engine.
DetectorsAfter(r, call) ==
    /\ order_blocks' = call.ict.st.order_blocks
    /\ fair_value_gaps' = call.ict.st.fair_value_gaps
    /\ market_structure' = call.ict.st.market_structure
    /\ ict_calls' = ict_calls + 1
    /\ ict_last' = [candles |-> r.candles, outcome |-> call.ict.outcome,
                    scanned |-> call.ict.scanned, blocks_at_scan |-> call.ict.blocks_at_scan,
                    current_price |-> call.ict.current_price,
                    breaker_results |-> call.ict.breaker_results,
                    raised |-> call.ict.raised, signals |-> call.ict.signals]
    /\ IF call.ict.outcome = "ValueError"
       THEN UNCHANGED smc_vars
       ELSE /\ liquidity_pools' = call.smc.st.liquidity_pools
            /\ inducements' = call.smc.st.inducements
            /\ bpr_zones' = call.smc.st.bpr_zones
            /\ smc_calls' = smc_calls + 1
            /\ smc_last' = [candles |-> r.candles, outcome |-> call.smc.outcome,
                            analyzed |-> call.smc.analyzed,
                            pools_at_sweep |-> call.smc.pools_at_sweep,
                            sweep_results |-> call.smc.sweep_results,
                            raised |-> call.smc.raised, signals |-> call.smc.signals]

\* One call of generate_signal with the arguments and clock of rq, on an
\* engine as its constructor leaves it.
GenerateSignal ==
    /\ eng_pc = "request"
    /\ \E call \in {generate_signal(rq,
                        [order_blocks |-> order_blocks, fair_value_gaps |-> fair_value_gaps,
                         market_structure |-> market_structure],
                        [liquidity_pools |-> liquidity_pools, inducements |-> inducements,
                         bpr_zones |-> bpr_zones])} :
          /\ out' = call.response
          /\ DetectorsAfter(rq, call)
    /\ eng_pc' = "done"
    /\ UNCHANGED <<rq, agg>>
    /\ UNCHANGED <<kz_vars, ev_vars, ind_vars, fn_vars, rp_vars>>

\* One call of aggregate_signals with the evaluated timeframes of rq.
AggregateSignals ==
    /\ eng_pc = "request"
    /\ agg' = aggregate_signals(evaluate_timeframe(rq.n15, rq.ind15),
                                evaluate_timeframe(rq.n1h, rq.ind1h),
                                evaluate_timeframe(rq.n1d, rq.ind1d))
    /\ eng_pc' = "aggregated"
    /\ UNCHANGED <<rq, out>>
    /\ UNCHANGED <<kz_vars, ev_vars, ict_vars, ind_vars, fn_vars, smc_vars, rp_vars>>

\* ---- the calls made on the one engine of the process ----
\* routers/signal.py holds one SignalEngine (_signal_engine) for all
\* requests: get_signal hands it the three series of a symbol
\* (generate_signal), get_ict_analysis the 1h series of a symbol
\* (_analyze_with_ict).  Two requests may name different symbols, so each
\* call comes with arguments of its own.
RpIdle ==
    /\ rp_pc = "idle"
    /\ rp_calls = <<>>

\* Calls made on the engine.
MaxRequests == 3

\* 1h series of the symbols asked for.
RpAnalysis ==
    { Analysis(IctSeries(IctLen, <<>>), NoInd, "ranging", FALSE),
      Analysis(IctSeries(IctLen, <<103, 100, 110>>), NoInd, "volatile", TRUE),
      Analysis(IctSeries(IctLen, <<97, 100, 94, 99>>), NoInd, "volatile", TRUE),
      Analysis(IctSeries(MinIctCandles - 1, <<103, 100, 110>>), NoInd, "volatile", TRUE),
      Analysis(SmcSeries(SmcLen, << <<1000, 1004, 999, 1003>>, <<1003, 1004, 999, 1000>> >>), NoInd, "volatile", TRUE),
      Analysis(SmcSeries(SmcLen, << <<1000, 1001, 996, 997>>, <<997, 1001, 996, 1000>> >>), NoInd, "volatile", TRUE) }

\* The arguments of a call of generate_signal and the time it is made at.
RpRequestSet ==
    {Request(p[1], Timeframe(x), p[2], x, QuietVolume, p[3]) :
        p \in {<<Series(FullLen, Bull75), Series(FullLen, Bull75), Day0 + 8 * 3600 + 30 * 60>>,
               <<Empty, Series(FullLen, Bear75), Day0 + 2 * 3600>>},
        x \in RpAnalysis}

\* The candles get_ict_analysis fetches; an empty list is answered with
\* 404 before the engine is touched.
RpIctSeriesSet ==
    {IctSeries(IctLen, tail) : tail \in {<<97, 94, 91>>, <<103, 100, 110>>, <<103, 103, 103>>}}
        \cup {IctSeries(MinIctCandles - 1, <<103, 100, 110>>)}

RpInit ==
    /\ rp_pc = "serving"
    /\ rp_calls = <<>>

\* get_signal from line 141 on: one call of generate_signal on the engine,
\* whose ICTStrategies and SMCStrategies instances are the ones of the
\* calls before.
GenerateSignalOnDetectors ==
    /\ rp_pc = "serving"
    /\ Len(rp_calls) < MaxRequests
    /\ \E r \in RpRequestSet :
          \E call \in {generate_signal(r,
                            [order_blocks |-> order_blocks, fair_value_gaps |-> fair_value_gaps,
                             market_structure |-> market_structure],
                            [liquidity_pools |-> liquidity_pools, inducements |-> inducements,
                             bpr_zones |-> bpr_zones])} :
              /\ rp_calls' = Append(rp_calls, [op |-> "generate_signal", rq |-> r,
                                               response |-> call.response])
              /\ DetectorsAfter(r, call)
    /\ UNCHANGED rp_pc
    /\ UNCHANGED <<kz_vars, ev_vars, eng_vars, ind_vars, fn_vars>>

\* ---- ICTStrategies.get_timeframe_bias (lines 475-483) ----
get_timeframe_bias(structure) ==
    [current_trend |-> structure.trend,
     bos_status |-> IF structure.bos_confirmed THEN "confirmed" ELSE "pending",
     bos_direction |-> structure.bos_direction,
     mss_status |-> IF structure.mss_confirmed THEN "confirmed" ELSE "pending",
     mss_direction |-> structure.mss_direction]

\* What get_ict_analysis answers after _analyze_with_ict(symbol, candles,
\* [], []) on the detector state st: the ICT signals, the market structure
\* read from the timeframe bias, the liquidity pools and the two counts of
\* the summary; or the exception the handler turns into a 500.
IctAnalysisOf(r) ==
    IF r.outcome = "returned"
    THEN [outcome |-> "returned", error |-> "none", ict_signals |-> r.signals,
          trend |-> get_timeframe_bias(r.st.market_structure).current_trend,
          bos_confirmed |-> get_timeframe_bias(r.st.market_structure).bos_status = "confirmed",
          bos_direction |-> get_timeframe_bias(r.st.market_structure).bos_direction,
          mss_confirmed |-> get_timeframe_bias(r.st.market_structure).mss_status = "confirmed",
          mss_direction |-> get_timeframe_bias(r.st.market_structure).mss_direction,
          liquidity_pools |-> get_liquidity_pools(r.st.order_blocks),
          order_blocks_count |-> Len(r.st.order_blocks),
          fair_value_gaps_count |-> Len(r.st.fair_value_gaps)]
    ELSE [outcome |-> "raised", error |-> r.outcome, ict_signals |-> <<>>,
          trend |-> "none", bos_confirmed |-> FALSE, bos_direction |-> "none",
          mss_confirmed |-> FALSE, mss_direction |-> "none",
          liquidity_pools |-> [buy_side |-> {}, sell_side |-> {}],
          order_blocks_count |-> 0, fair_value_gaps_count |-> 0]

\* get_ict_analysis from line 184 on: _analyze_with_ict with the candles in
\* the place of the 15m series and no 1h series, so that they are the
\* analysis candles; the ICT detector of the engine analyzes them, the SMC
\* detector is not called.
GetIctAnalysis ==
    /\ rp_pc = "serving"
    /\ Len(rp_calls) < MaxRequests
    /\ \E candles \in RpIctSeriesSet :
          \E r \in {analyze_candles(candles,
                         [order_blocks |-> order_blocks, fair_value_gaps |-> fair_value_gaps,
                          market_structure |-> market_structure])} :
              /\ order_blocks' = r.st.order_blocks
              /\ fair_value_gaps' = r.st.fair_value_gaps
              /\ market_structure' = r.st.market_structure
              /\ ict_last' = [candles |-> candles, outcome |-> r.outcome,
                              scanned |-> r.scanned, blocks_at_scan |-> r.blocks_at_scan,
                              current_price |-> r.current_price,
                              breaker_results |-> r.breaker_results,
                              raised |-> r.raised, signals |-> r.signals]
              /\ rp_calls' = Append(rp_calls,
                                [op |-> "get_ict_analysis",
                                 rq |-> [candles |-> candles],
                                 response |-> IctAnalysisOf(r)])
    /\ ict_calls' = ict_calls + 1
    /\ UNCHANGED rp_pc
    /\ UNCHANGED <<kz_vars, ev_vars, eng_vars, ind_vars, fn_vars, smc_vars>>

(***************************************************************************)
(* Single calls of functions that keep no state between calls.             *)
(***************************************************************************)
NoFnOut == [bonus |-> DZero, rationale |-> <<>>]

\* The features of a quiet ranging series whose last candle lies in no
\* phase-1 window.
QuietFeatures ==
    [last_ts |-> Day0 + 22 * 3600, pd_location |-> "equity", pd_in_ote |-> FALSE,
     sweeps |-> {}, regime |-> "ranging",
     low_volume |-> FALSE, choppy |-> FALSE, wide_spreads |-> FALSE]

FnIdle ==
    /\ fn_pc = "idle"
    /\ fn_in = [n |-> 0]
    /\ fn_out = NoFnOut

\* ---- calculate_phase1_enhancement ----
\* len(candles): none, below and at the sweep lookback (10), below and at the
\* PD-array lookback (50).
Phase1Lens == {0, 9, 10, 49, 50}

\* Hours of the day the last candle is stamped with.
Phase1Hours == 24

\* calculate_pd_arrays: the location of the last close and whether it lies in
\* the OTE band, which is inside the discount half; 'unknown' for a range of
\* size 0.
PdOutcomes ==
    {<<"premium", FALSE>>, <<"equity", FALSE>>, <<"discount", FALSE>>, <<"discount", TRUE>>,
     <<"unknown", FALSE>>}

\* detect_liquidity_sweeps: confirmed sweeps of strength 75, or 95 on volume
\* above the average.
SweepOutcomes ==
    SUBSET {Sweep(e, st) : e \in {"bullish_move", "bearish_move"}, st \in {75, 95}}

Phase1Init ==
    /\ fn_pc = "input"
    /\ \E n \in Phase1Lens, h \in 0..(Phase1Hours - 1), l \in PdOutcomes, w \in SweepOutcomes,
          rec \in {"buy", "sell", "neutral"} :
          fn_in = [n |-> n, recommendation |-> rec,
                   an |-> [QuietFeatures EXCEPT !.last_ts = Day0 + 3600 * h + 1800,
                                                !.pd_location = l[1], !.pd_in_ote = l[2],
                                                !.sweeps = w]]
    /\ fn_out = NoFnOut

CalculatePhase1Enhancement ==
    /\ fn_pc = "input"
    /\ fn_out' = [bonus |-> calculate_phase1_enhancement(fn_in.n, fn_in.an, fn_in.recommendation),
                  rationale |-> phase1_rationale(fn_in.n, fn_in.an, fn_in.recommendation)]
    /\ fn_pc' = "calculate_phase1_enhancement"
    /\ UNCHANGED fn_in
    /\ UNCHANGED <<kz_vars, ev_vars, eng_vars, ict_vars, ind_vars, smc_vars, rp_vars>>

\* ---- AIEnhancer._calculate_confluence_bonus ----
\* Signals a detector returns at most (len(unique_signals) < 3).
MaxReturned == 3

\* Lists of up to MaxReturned signals of pairwise different types, as the
\* ranking step of a detector returns them.
IsUniqueList(f) == \A j, k \in DOMAIN f : j # k => f[j] # f[k]

ConfluenceInit ==
    /\ fn_pc = "input"
    /\ \E n \in 0..MaxReturned, m \in 0..MaxReturned :
          \E f \in [1..n -> IctSignalSet], g \in [1..m -> SmcSignalSet] :
              /\ IsUniqueList(f)
              /\ IsUniqueList(g)
              /\ fn_in = [n |-> n + m, ict_signals |-> f, smc_signals |-> g]
    /\ fn_out = NoFnOut

CalculateConfluenceBonus ==
    /\ fn_pc = "input"
    /\ fn_out' = [bonus |-> _calculate_confluence_bonus(fn_in.ict_signals, fn_in.smc_signals),
                  rationale |-> <<>>]
    /\ fn_pc' = "_calculate_confluence_bonus"
    /\ UNCHANGED fn_in
    /\ UNCHANGED <<kz_vars, ev_vars, eng_vars, ict_vars, ind_vars, smc_vars, rp_vars>>

(***************************************************************************)
(* Specifications: one per component, the other components at rest.        *)
(***************************************************************************)
InitKillZone == KZInit /\ EVIdle /\ EngIdle /\ IctInit /\ IndIdle /\ FnIdle /\ SmcInit /\ RpIdle

KZNext == GetKillZoneInfo \/ GetCurrentKillZone \/ ShouldTradeSignal

SpecKillZone == InitKillZone /\ [][KZNext]_vars

InitEvaluate == EVInit /\ KZIdle /\ EngIdle /\ IctInit /\ IndIdle /\ FnIdle /\ SmcInit /\ RpIdle

EVNext == EvaluateTimeframe

SpecEvaluate == InitEvaluate /\ [][EVNext]_vars

InitEngine == EngInit /\ KZIdle /\ EVIdle /\ IctInit /\ IndIdle /\ FnIdle /\ SmcInit /\ RpIdle

EngNext == GenerateSignal \/ AggregateSignals

SpecEngine == InitEngine /\ [][EngNext]_vars

InitUptrend == UptrendInit /\ KZIdle /\ EVIdle /\ IctInit /\ IndIdle /\ FnIdle /\ SmcInit /\ RpIdle

UptrendNext == GenerateSignal

SpecUptrend == InitUptrend /\ [][UptrendNext]_vars

InitICT == IctInit /\ KZIdle /\ EVIdle /\ EngIdle /\ IndIdle /\ FnIdle /\ SmcInit /\ RpIdle

ICTNext == AnalyzeCandles

SpecICT == InitICT /\ [][ICTNext]_vars

InitIndicators == IndInit /\ KZIdle /\ EVIdle /\ EngIdle /\ IctInit /\ FnIdle /\ SmcInit /\ RpIdle

IndNext == Sma \/ Rsi \/ Macd

SpecIndicators == InitIndicators /\ [][IndNext]_vars

InitPhase1 == Phase1Init /\ KZIdle /\ EVIdle /\ EngIdle /\ IctInit /\ IndIdle /\ SmcInit /\ RpIdle

Phase1Next == CalculatePhase1Enhancement

SpecPhase1 == InitPhase1 /\ [][Phase1Next]_vars

InitConfluence == ConfluenceInit /\ KZIdle /\ EVIdle /\ EngIdle /\ IctInit /\ IndIdle /\ SmcInit /\ RpIdle

ConfluenceNext == CalculateConfluenceBonus

SpecConfluence == InitConfluence /\ [][ConfluenceNext]_vars

InitSMC == SmcInit /\ KZIdle /\ EVIdle /\ EngIdle /\ IctInit /\ IndIdle /\ FnIdle /\ RpIdle

SMCNext == AnalyzeCandlesSmc

SpecSMC == InitSMC /\ [][SMCNext]_vars

InitRepeat == RpInit /\ KZIdle /\ EVIdle /\ EngIdle /\ IctInit /\ IndIdle /\ FnIdle /\ SmcInit

RepeatNext == GenerateSignalOnDetectors \/ GetIctAnalysis

SpecRepeat == InitRepeat /\ [][RepeatNext]_vars

\* Calls on the two detectors, in any order.
DetectorsNext == AnalyzeCandles \/ AnalyzeCandlesSmc

SpecDetectors == InitSMC /\ [][DetectorsNext]_vars

(***************************************************************************)
(* Claims about the kill-zone classifiers.                                 *)
(***************************************************************************)
\* Minute of the UTC day of the classified timestamp.
MinuteOfDay == (ts % 86400) \div 60

\* C9: get_kill_zone_info maps every UTC timestamp to exactly one zone of
\* the fixed UTC table: London open (active, multiplier 1.30) throughout
\* 07:00-10:00, New York open (active, 1.25) throughout 12:00-15:00, London
\* close (1.15) 15:00-17:00, New York close (1.05) 19:00-21:00, the Asian
\* session (1.10) in the hours from midnight that London open does not
\* take, and off-hours (inactive, 1.0) at every other time.  08:30 on
\* 2025-01-26 is London open and active, 22:00 is off-hours and inactive.
C9_KillZoneTable ==
    kz_pc = "get_kill_zone_info" =>
        LET m == MinuteOfDay
            is(z, mult) == /\ p1_info.zone_type = z
                           /\ p1_info.is_active = (z # "off_hours")
                           /\ p1_info.strength_multiplier = mult
        IN  /\ (7 * 60 <= m /\ m < 10 * 60)  => is("london_open", 130)
            /\ (12 * 60 <= m /\ m < 15 * 60) => is("ny_open", 125)
            /\ (15 * 60 <= m /\ m < 17 * 60) => is("london_close", 115)
            /\ (19 * 60 <= m /\ m < 21 * 60) => is("ny_close", 105)
            /\ (m < 7 * 60)                  => is("asian_session", 110)
            /\ (  (10 * 60 <= m /\ m < 12 * 60) \/ (17 * 60 <= m /\ m < 19 * 60)
               \/ (21 * 60 <= m)) => is("off_hours", 100)
            /\ (ts = Day0 + 8 * 3600 + 30 * 60) => is("london_open", 130)
            /\ (ts = Day0 + 22 * 3600) => is("off_hours", 100)

C9_Witness ==
    /\ kz_pc = "get_kill_zone_info"
    /\ ts = Day0 + 7 * 3600 + 30 * 60
    /\ p1_info.zone_type = "london_open"
    /\ p1_info.is_active

\* The decision table of should_trade_signal up to its last rule, which is
\* given as the argument: what is answered when no earlier rule matched.
DecisionTable(last) ==
    IF cur_info.is_active /\ sig_strength >= 70 THEN TRUE
    ELSE IF cur_info.is_active /\ cur_info.optimal_for_entries /\ sig_strength >= 50 THEN TRUE
    ELSE IF cur_info.zone_type = "asian_session" THEN FALSE
    ELSE IF cur_info.zone_type = "off_hours" THEN sig_strength >= 80
    ELSE last

\* C10 as stated: should_trade_signal is the decision table, first match
\* wins: trade in an active zone at strength >= 70; trade in an active,
\* optimal zone at strength >= 50; refuse in the Asian session; off-hours
\* trade only at strength >= 80; in every remaining case trade is allowed.
C10_Original ==
    kz_pc = "should_trade_signal" => st_result.trade = DecisionTable(TRUE)

\* C10 amended: the same table, but the remaining case, a signal weaker
\* than 50 inside an active optimal zone, is refused.
C10_DecisionTable ==
    kz_pc = "should_trade_signal" =>
        /\ st_result.trade = DecisionTable(FALSE)
        /\ st_result.rule = "low_in_zone" <=>
              /\ cur_info.is_active /\ cur_info.optimal_for_entries
              /\ sig_strength < 50
        /\ st_result.rule # "default"

C10_Witness ==
    /\ kz_pc = "should_trade_signal"
    /\ cur_info.zone_type = "london_kill_zone"
    /\ sig_strength = 45
    /\ ~st_result.trade

(***************************************************************************)
(* Claims about evaluate_timeframe.                                        *)
(***************************************************************************)
\* C7: evaluate_timeframe on an empty series or on fewer than 200 candles
\* returns Neutral with strength contribution 0 and the insufficient-data
\* rationale, and computes no indicator.
C7_InsufficientData ==
    (ev_pc = "done" /\ ev_n < 200) =>
        /\ ev_result.mini_signal = "Neutral"
        /\ ev_result.strength = 0
        /\ ev_result.rationale = <<"Insufficient data">>
        /\ ~ev_result.indicators_computed

C7_Witness ==
    /\ ev_pc = "done"
    /\ ev_n = 199
    /\ ev_result.mini_signal = "Neutral"
    /\ ev_result.rationale = <<"Insufficient data">>


(***************************************************************************)
(* Claims about generate_signal and aggregate_signals.                     *)
(***************************************************************************)
\* The call got as far as the final strength: it returned, or the
\* SignalResponse it built was refused.
ReachedFinalStrength == out.outcome = "returned" \/ out.error = "ValidationError"

\* The mini-signals of a breakdown in the order the engine lists them.
BreakdownSignals(b) == <<b.m15, b.h1, b.d1>>

\* The three series of the request, keyed like the breakdown.
SeriesLen == [m15 |-> rq.n15, h1 |-> rq.n1h, d1 |-> rq.n1d]

\* C1: every call of generate_signal that reaches its final strength, for
\* any three series and any wall-clock time, has the sum weighted_strength +
\* confluence_bonus + phase1_bonus + (success_probability - 50) * 0.3 clamped
\* into 0..100, the strength after the kill-zone adjustment is in 0..100 as
\* well, and so a SignalResponse with that strength is returned.
C1_Original ==
    (eng_pc = "done" /\ ReachedFinalStrength) =>
        /\ 0 <= out.unadjusted_strength /\ out.unadjusted_strength <= 100
        /\ 0 <= out.strength /\ out.strength <= 100
        /\ out.outcome = "returned"

\* A call whose unclamped sum is negative while the wall clock is in an
\* active zone that is not optimal for entries.
C1_Witness ==
    /\ eng_pc = "done"
    /\ out.error = "ValidationError"
    /\ out.unadjusted_strength < 0
    /\ out.strength = out.unadjusted_strength
    /\ \A today \in DatesRead(MaxReads) :
           get_current_kill_zone(rq.now, today).zone_type = "asian_session"

\* C2: every SignalResponse returned by generate_signal with a strength
\* below 40 recommends Neutral, whatever the timeframes voted and whatever
\* kill-zone adjustment was applied to the strength.
C2_Original ==
    (eng_pc = "done" /\ out.outcome = "returned" /\ out.strength < 40) =>
        out.recommendation = "Neutral"

\* A returned Buy whose strength fell below 40 by the off-hours reduction.
C2_Witness ==
    /\ eng_pc = "done"
    /\ out.outcome = "returned"
    /\ out.recommendation = "Buy"
    /\ out.strength < 40
    /\ out.unadjusted_strength = out.strength + 15
    /\ \A today \in DatesRead(MaxReads) :
           get_current_kill_zone(rq.now, today).zone_type = "off_hours"

\* C3: generate_signal never raises because of missing or insufficient
\* data: whenever one of the series is empty or shorter than the 200
\* candles a timeframe needs, the call returns a SignalResponse, and every
\* such timeframe is Neutral in its breakdown.
C3_Original ==
    (eng_pc = "done" /\ \E tf \in DOMAIN SeriesLen : SeriesLen[tf] < MinCandles) =>
        /\ out.outcome = "returned"
        /\ \A tf \in DOMAIN SeriesLen :
               SeriesLen[tf] < MinCandles => out.breakdown[tf] = "Neutral"

\* The call with an empty 1h and an empty 15m series and a full daily
\* series: no detector runs, and the call ends in a KeyError.
C3_Witness ==
    /\ eng_pc = "done"
    /\ rq.n1h = 0 /\ rq.n15 = 0 /\ rq.n1d = FullLen
    /\ out.outcome = "raised"
    /\ out.error = "KeyError"

\* The bonus the confluence rule gives to a breakdown.
RuleBonus(b) ==
    LET bull == Cardinality({tf \in DOMAIN b : b[tf] = "Bullish"})
        bear == Cardinality({tf \in DOMAIN b : b[tf] = "Bearish"})
    IN  IF bull >= 2 THEN 15 * bull ELSE IF bear >= 2 THEN 15 * bear ELSE 0

\* C5: in generate_signal and in aggregate_signals the confluence bonus is
\* 15 times the number of Bullish mini-signals when at least 2 of the 3
\* are Bullish, otherwise 15 times the number of Bearish ones when at least
\* 2 are Bearish, otherwise 0; two Bullish and a Neutral give 30, three
\* Bearish give 45.
C5_ConfluenceBonus ==
    /\ (eng_pc = "done" /\ out.outcome = "returned") =>
           /\ out.confluence_bonus = RuleBonus(out.breakdown)
           /\ BreakdownSignals(out.breakdown) = <<"Bullish", "Bullish", "Neutral">>
                  => out.confluence_bonus = 30
           /\ BreakdownSignals(out.breakdown) = <<"Bearish", "Bearish", "Bearish">>
                  => out.confluence_bonus = 45
    /\ eng_pc = "aggregated" =>
           /\ agg.confluence_bonus = RuleBonus(agg.breakdown)
           /\ BreakdownSignals(agg.breakdown) = <<"Bullish", "Bullish", "Neutral">>
                  => agg.confluence_bonus = 30
           /\ BreakdownSignals(agg.breakdown) = <<"Bearish", "Bearish", "Bearish">>
                  => agg.confluence_bonus = 45

\* generate_signal returned a bonus of 30 for [Bullish, Bullish, Neutral].
C5_Witness ==
    /\ eng_pc = "done"
    /\ out.outcome = "returned"
    /\ BreakdownSignals(out.breakdown) = <<"Bullish", "Bullish", "Neutral">>
    /\ out.confluence_bonus = 30

\* C6: generate_signal returns Buy only if at least 2 of the 3 mini-signals
\* of the returned breakdown are Bullish, Sell only if at least 2 are
\* Bearish, and Neutral whenever no two timeframes agree on Bullish or on
\* Bearish.
C6_TwoOfThree ==
    (eng_pc = "done" /\ out.outcome = "returned") =>
        LET bull == Cardinality({tf \in DOMAIN out.breakdown : out.breakdown[tf] = "Bullish"})
            bear == Cardinality({tf \in DOMAIN out.breakdown : out.breakdown[tf] = "Bearish"})
        IN  /\ out.recommendation \in {"Buy", "Sell", "Neutral"}
            /\ out.recommendation = "Buy" => bull >= 2
            /\ out.recommendation = "Sell" => bear >= 2
            /\ (bull < 2 /\ bear < 2) => out.recommendation = "Neutral"

\* A returned Buy carried by exactly two Bullish timeframes against a
\* Bearish one.
C6_Witness ==
    /\ eng_pc = "done"
    /\ out.outcome = "returned"
    /\ out.recommendation = "Buy"
    /\ Cardinality({tf \in DOMAIN out.breakdown : out.breakdown[tf] = "Bullish"}) = 2
    /\ Cardinality({tf \in DOMAIN out.breakdown : out.breakdown[tf] = "Bearish"}) = 1

\* C4: given three 250-candle series that all trend upward (SMA50 > SMA200,
\* last close above SMA50, RSI in 55-65, MACD line above its signal line
\* with a positive histogram on every timeframe), generate_signal returns
\* the recommendation Buy with a strength of at least 40.
C4_Original ==
    eng_pc = "done" =>
        /\ out.outcome = "returned"
        /\ out.recommendation = "Buy"
        /\ out.strength >= 40

\* An upward 1h series with a long lower wick on one of its last three
\* candles: the SMC detector appends the inducement and raises, and no
\* signal is returned.
C4_Witness ==
    /\ eng_pc = "done"
    /\ rq.candles = Up75Wick.candles
    /\ ict_last.outcome = "returned"
    /\ inducements # <<>>
    /\ smc_last.outcome = "NameError"
    /\ out.outcome = "raised"
    /\ out.error = "NameError"

\* On the upward series every call that returns is a Buy of strength 95 or
\* more: the claim fails by the detectors' exceptions alone.
C4_WhenReturned ==
    (eng_pc = "done" /\ out.outcome = "returned") =>
        /\ out.recommendation = "Buy"
        /\ out.strength >= 95
        /\ out.error = "none"

(***************************************************************************)
(* Claims about the ICT detector.                                          *)
(***************************************************************************)
\* The latest close trades through block b against its type.
TradedThrough(b) ==
    \/ b.type = "bearish" /\ ict_last.current_price > b.high
    \/ b.type = "bullish" /\ ict_last.current_price < b.low

\* The breaker signal a block of the given type turns into.
BreakerOf(type) == IF type = "bearish" THEN BULLISH_BREAKER ELSE BEARISH_BREAKER

\* Order block i was unbroken and traded through when the last scan began.
DueAt(i) ==
    /\ ~ict_last.blocks_at_scan[i].broken
    /\ TradedThrough(ict_last.blocks_at_scan[i])

\* Order block i left the scan marked, and the scan raised its signal.
TransitionedAt(i) ==
    /\ order_blocks[i].broken
    /\ order_blocks[i].breaker_confirmed
    /\ \E k \in 1..Len(ict_last.breaker_results) :
           ict_last.breaker_results[k] =
               ICTSignalResult(BreakerOf(order_blocks[i].type), ict_last.current_price)

\* Order block i is one of the BreakerWindow most recently added.
InScanWindow(i) == i > Len(ict_last.blocks_at_scan) - BreakerWindow

\* C8 as stated: after a breaker scan every order block the detector held
\* unbroken with the latest close through it (above the high of a bearish
\* block, below the low of a bullish one) is marked broken and
\* breaker_confirmed, and the scan raised the matching breaker signal with
\* strength 85 and confidence 90.
C8_Original ==
    ict_last.scanned =>
        \A i \in 1..Len(ict_last.blocks_at_scan) : DueAt(i) => TransitionedAt(i)

\* C8: the breaker scan makes the transition for the ten most recently
\* added order blocks only.  Among those, every unbroken block with the
\* latest close through it is marked broken and breaker_confirmed and
\* raises one breaker signal of strength 85 and confidence 90 (BULLISH_BREAKER
\* for a bearish block, BEARISH_BREAKER for a bullish one), in block order;
\* every other block, older ones included, is left as it was.
C8_BreakerTransition ==
    ict_last.scanned =>
        LET n == Len(ict_last.blocks_at_scan)
            due == {i \in 1..n : InScanWindow(i) /\ DueAt(i)}
        IN  /\ Len(order_blocks) = n
            /\ \A i \in due : TransitionedAt(i)
            /\ \A i \in due :
                   order_blocks[i] = [ict_last.blocks_at_scan[i] EXCEPT
                                         !.broken = TRUE, !.breaker_confirmed = TRUE]
            /\ \A i \in (1..n) \ due : order_blocks[i] = ict_last.blocks_at_scan[i]
            /\ Len(ict_last.breaker_results) = Cardinality(due)
            /\ \A k \in 1..Len(ict_last.breaker_results) :
                   /\ ict_last.breaker_results[k].strength = 85
                   /\ ict_last.breaker_results[k].confidence = 90
                   /\ \E i \in due :
                          /\ Cardinality({j \in due : j <= i}) = k
                          /\ ict_last.breaker_results[k].signal_type
                                 = BreakerOf(order_blocks[i].type).signal_type

\* The example of the specification: a bearish block with high 110 and low
\* 108, unbroken, and a latest close of 111; the scan marked it and raised
\* BULLISH_BREAKER 85/90.
C8_Witness ==
    /\ ict_last.scanned
    /\ ict_last.current_price = 111
    /\ \E i \in 1..Len(ict_last.blocks_at_scan) :
           /\ ict_last.blocks_at_scan[i] = OrderBlock(110, 108, ict_last.blocks_at_scan[i].timestamp, "bearish")
           /\ order_blocks[i].broken
           /\ order_blocks[i].breaker_confirmed
    /\ \E k \in 1..Len(ict_last.breaker_results) :
           /\ ict_last.breaker_results[k].signal_type = "bullish_breaker"
           /\ ict_last.breaker_results[k].strength = 85
           /\ ict_last.breaker_results[k].confidence = 90

\* An unbroken bearish block older than the ten most recent ones, with the
\* latest close above its high, that a completed scan left unbroken.
C8_OutsideWindow ==
    /\ ict_last.scanned
    /\ \E i \in 1..Len(ict_last.blocks_at_scan) :
           /\ ~InScanWindow(i)
           /\ DueAt(i)
           /\ ~order_blocks[i].broken

(***************************************************************************)
(* Claims about the indicator library.                                     *)
(***************************************************************************)
\* The list a call of sma or rsi returned.
IndList == ind_result.lists[1]

\* The first period argument of the call.
IndPeriod == ind_args[1]

StrictlyRising(prices) == \A i \in 2..Len(prices) : prices[i] > prices[i - 1]

\* C11: sma(prices, p) with len(prices) >= p has exactly p-1 leading
\* sentinels and at every later index the arithmetic mean of the p prices
\* ending there; with len(prices) < p every entry is the sentinel.
C11_SmaMean ==
    ind_pc = "sma" =>
        IF Len(ind_prices) >= IndPeriod
        THEN /\ Len(IndList) = Len(ind_prices)
             /\ \A i \in 1..(IndPeriod - 1) : IndList[i].none
             /\ \A i \in IndPeriod..Len(ind_prices) :
                   /\ ~IndList[i].none
                   /\ IndList[i].n * IndPeriod
                        = IndList[i].d * SumSeq(SubSeq(ind_prices, i - IndPeriod + 1, i))
        ELSE /\ Len(IndList) = Len(ind_prices)
             /\ \A i \in 1..Len(IndList) : IndList[i].none

\* sma with period 3 over seven prices that are not all equal.
C11_Witness ==
    /\ ind_pc = "sma"
    /\ IndPeriod = 3
    /\ Len(ind_prices) = 7
    /\ \E i \in 3..7 : ~IndList[i].none /\ IndList[i].d = 3
    /\ IndList[2].none

\* C12 as stated: every list sma, rsi and macd return has as many entries
\* as the price list, whatever its length.
C12_Original ==
    ind_pc \in {"sma", "rsi", "macd"} =>
        \A k \in 1..Len(ind_result.lists) : Len(ind_result.lists[k]) = Len(ind_prices)

\* macd on a price list of at least slow but fewer than slow + signal - 1
\* prices: the signal line and the histogram come back with
\* slow + signal - 1 entries, more than there are prices.
C12_Witness ==
    /\ ind_pc = "macd"
    /\ Len(ind_prices) >= ind_args[2]
    /\ Len(ind_prices) < ind_args[2] + ind_args[3] - 1
    /\ Len(ind_result.lists[1]) = Len(ind_prices)
    /\ Len(ind_result.lists[2]) = ind_args[2] + ind_args[3] - 1
    /\ Len(ind_result.lists[3]) = ind_args[2] + ind_args[3] - 1

\* C13: wherever the MACD line and the signal line are both defined, the
\* histogram is defined and equals MACD line minus signal line.
C13_Histogram ==
    ind_pc = "macd" =>
        LET macd_line == ind_result.lists[1]
            signal_line == ind_result.lists[2]
            histogram == ind_result.lists[3]
        IN  \A i \in 1..Min(Len(macd_line), Len(signal_line)) :
                (~macd_line[i].none /\ ~signal_line[i].none) =>
                    /\ i <= Len(histogram)
                    /\ ~histogram[i].none
                    /\ [n |-> histogram[i].n, d |-> histogram[i].d]
                         = RatSub(macd_line[i], signal_line[i])

\* A MACD whose histogram is defined and not zero at some index.
C13_Witness ==
    /\ ind_pc = "macd"
    /\ \E i \in 1..Len(ind_prices) :
          /\ i <= Len(ind_result.lists[3])
          /\ ~ind_result.lists[1][i].none
          /\ ~ind_result.lists[2][i].none
          /\ ind_result.lists[3][i].n # 0

\* C14 as stated: at a defined index where the smoothed average loss is 0
\* the RSI is 100 when the average gain is positive and 0 when it is 0 too.
C14_Original ==
    ind_pc = "rsi" =>
        \A i \in (IndPeriod + 1)..Len(IndList) :
            ind_result.avg_loss[i].n = 0 =>
                IF ind_result.avg_gain[i].n > 0
                THEN IndList[i] = Entry(RatInt(100))
                ELSE IndList[i] = Entry(RatInt(0))

\* A strictly rising price list with defined RSI values, all of them 0.
C14_Witness ==
    /\ ind_pc = "rsi"
    /\ StrictlyRising(ind_prices)
    /\ Len(ind_prices) > IndPeriod + 1
    /\ \A i \in (IndPeriod + 1)..Len(IndList) :
          /\ ind_result.avg_gain[i].n > 0
          /\ IndList[i] = Entry(RatInt(0))

\* C15: every defined value rsi returns lies in [0, 100], and the first
\* `period` entries (all of them for a shorter list) are the sentinel.
C15_RsiRange ==
    ind_pc = "rsi" =>
        /\ \A i \in 1..Min(IndPeriod, Len(IndList)) : IndList[i].none
        /\ \A i \in 1..Len(IndList) :
              ~IndList[i].none =>
                  /\ RatLe(RatInt(0), IndList[i])
                  /\ RatLe(IndList[i], RatInt(100))

\* An RSI above 50 and below 100 on a list that both rises and falls.
C15_Witness ==
    /\ ind_pc = "rsi"
    /\ \E i \in 2..Len(ind_prices) : ind_prices[i] > ind_prices[i - 1]
    /\ \E i \in 2..Len(ind_prices) : ind_prices[i] < ind_prices[i - 1]
    /\ \E i \in 1..Len(IndList) :
          /\ ~IndList[i].none
          /\ IndList[i].n > 50 * IndList[i].d
          /\ IndList[i].n < 100 * IndList[i].d

\* C16 as stated: the neutrality rules are decided on the strength after
\* the kill-zone adjustment: the returned recommendation is the 2-of-3 vote,
\* turned into Neutral exactly when the AI quality is poor or reject and the
\* returned strength is below 50, or the returned strength is below 40.
C16_Original ==
    (eng_pc = "done" /\ out.outcome = "returned") =>
        out.recommendation =
            IF \/ out.quality_rating \in {"poor", "reject"} /\ out.strength < 50
               \/ out.strength < 40
            THEN "Neutral"
            ELSE vote(BreakdownSignals(out.breakdown))

\* A returned Neutral against two agreeing timeframes: the strength was
\* below the threshold before the +5 of an optimal kill zone and is at or
\* above it in the response.
C16_Witness ==
    /\ eng_pc = "done"
    /\ out.outcome = "returned"
    /\ vote(BreakdownSignals(out.breakdown)) # "Neutral"
    /\ out.recommendation = "Neutral"
    /\ out.strength = out.unadjusted_strength + 5
    /\ ~(out.quality_rating \in {"poor", "reject"} /\ out.strength < 50)
    /\ out.strength >= 40

\* The recommendation always follows the neutrality rules taken on the
\* strength before the kill-zone adjustment.
C16_DecidedBeforeAdjustment ==
    (eng_pc = "done" /\ out.outcome = "returned") =>
        out.recommendation =
            decide(BreakdownSignals(out.breakdown), out.quality_rating, out.unadjusted_strength)

\* The strength*confidence key of a detector signal.
SignalKey(sig) == sig.strength * sig.confidence

\* The detector signals of the call as the orchestrator received them.
IctSignals == ict_last.signals

SmcSignals == smc_last.signals

\* C17 as stated: the pattern reference of a call is taken from a signal
\* with the largest strength*confidence among all ICT and SMC signals
\* together, and is the neutral pattern with confidence 50 when there is
\* none.
C17_Original ==
    (eng_pc = "done" /\ out.outcome = "returned") =>
        LET all == IctSignals \o SmcSignals
        IN  IF all = <<>>
            THEN out.pattern_type = "neutral" /\ out.base_confidence = 50
            ELSE \E i \in 1..Len(all) :
                    /\ \A k \in 1..Len(all) : SignalKey(all[k]) <= SignalKey(all[i])
                    /\ out.pattern_type = all[i].signal_type
                    /\ out.base_strength = Pts(all[i].strength)
                    /\ out.base_confidence = all[i].confidence

\* C17: the pattern reference is taken from the strongest ICT signal
\* whenever the call has an ICT signal, however strong the SMC signals are;
\* from the strongest SMC signal when there is no ICT signal; and it is
\* the neutral pattern with the weighted strength and confidence 50 when
\* there is neither.
C17_IctFirst ==
    (eng_pc = "done" /\ out.outcome = "returned") =>
        LET from == IF IctSignals # <<>> THEN IctSignals ELSE SmcSignals
        IN  IF from = <<>>
            THEN /\ out.pattern_type = "neutral"
                 /\ out.base_strength = out.weighted_strength
                 /\ out.base_confidence = 50
            ELSE \E i \in 1..Len(from) :
                    /\ \A k \in 1..Len(from) : SignalKey(from[k]) <= SignalKey(from[i])
                    /\ out.pattern_type = from[i].signal_type
                    /\ out.base_strength = Pts(from[i].strength)
                    /\ out.base_confidence = from[i].confidence

\* A call with an ICT signal and a stronger SMC signal whose reference is
\* the ICT signal.
C17_Witness ==
    /\ eng_pc = "done"
    /\ out.outcome = "returned"
    /\ IctSignals # <<>>
    /\ \E m \in 1..Len(SmcSignals) :
           \A i \in 1..Len(IctSignals) : SignalKey(SmcSignals[m]) > SignalKey(IctSignals[i])
    /\ \E i \in 1..Len(IctSignals) :
           /\ out.pattern_type = IctSignals[i].signal_type
           /\ out.base_confidence = IctSignals[i].confidence

(***************************************************************************)
(* The scoring table of evaluate_timeframe.                                *)
(***************************************************************************)
\* Points of one check: pts to the bulls (+) or to the bears (-).
Points(bullish, bearish, pts) == IF bullish THEN pts ELSE IF bearish THEN -pts ELSE 0

\* The RSI row of the table, rsi in tenths of a point.
RsiPoints(tenths) ==
    IF tenths < 300 THEN 25
    ELSE IF tenths > 700 THEN -25
    ELSE IF tenths >= 400 /\ tenths <= 600 THEN 0
    ELSE IF tenths > 600 THEN -10
    ELSE 10

\* The net score of the table for the evaluated indicator values.
TableNet ==
    Points(ev_ind.sma50 > ev_ind.sma200, ev_ind.sma50 < ev_ind.sma200, 30)
      + Points(ev_ind.close > ev_ind.sma50, ev_ind.close < ev_ind.sma50, 25)
      + RsiPoints(ev_ind.rsi)
      + Points(ev_ind.macd_line > ev_ind.macd_signal, ev_ind.macd_line < ev_ind.macd_signal, 20)

\* C18: for a series of at least 200 candles evaluate_timeframe returns
\* Bullish iff the net score of the four checks (SMA50 vs SMA200 30, close
\* vs SMA50 25, RSI 25/10/0, MACD cross 20) is above 30, Bearish iff it is
\* below -30 and Neutral otherwise, with strength min(100, |net|).
C18_ScoreTable ==
    (ev_pc = "done" /\ ev_n >= MinCandles) =>
        /\ ev_result.mini_signal = "Bullish" <=> TableNet > 30
        /\ ev_result.mini_signal = "Bearish" <=> TableNet < -30
        /\ ev_result.mini_signal = "Neutral" <=> (TableNet >= -30 /\ TableNet <= 30)
        /\ ev_result.strength = Min(100, IF TableNet >= 0 THEN TableNet ELSE -TableNet)

\* A series scored exactly 30 (trend alone, RSI at 60) and so Neutral with
\* strength 30.
C18_Witness ==
    /\ ev_pc = "done"
    /\ ev_n >= MinCandles
    /\ ev_ind.rsi = 600
    /\ TableNet = 30
    /\ ev_result.mini_signal = "Neutral"
    /\ ev_result.strength = 30

(***************************************************************************)
(* The list returned by analyze_candles.                                   *)
(***************************************************************************)
RankKey(signal) == signal.strength * signal.confidence

\* What C19 says of one call: last is the record of the call, with the
\* results handed to the ranking step (raised) and the list returned
\* (signals).
RankedTop3(last, min_candles) ==
    last.outcome = "returned" =>
        /\ Len(last.signals) <= 3
        /\ \A j, k \in 1..Len(last.signals) :
               j # k => last.signals[j].signal_type # last.signals[k].signal_type
        /\ \A k \in 1..(Len(last.signals) - 1) :
               RankKey(last.signals[k]) >= RankKey(last.signals[k + 1])
        /\ \A k \in 1..Len(last.signals) :
               \E i \in 1..Len(last.raised) : last.raised[i] = last.signals[k]
        /\ \A i \in 1..Len(last.raised) :
               \/ \E k \in 1..Len(last.signals) :
                      last.signals[k].signal_type = last.raised[i].signal_type
               \/ \A k \in 1..Len(last.signals) :
                      RankKey(last.raised[i]) <= RankKey(last.signals[k])
        /\ Len(last.candles) < min_candles => last.signals = <<>>

\* C19: the list returned by analyze_candles of either detector has at most
\* 3 signals, of pairwise different types, in non-increasing order of
\* strength*confidence; it is drawn from the raised signals, and every raised
\* signal left out has the type of a returned signal or a key no greater
\* than every returned signal's; below 50 candles (30 for SMC) it is empty.
C19_RankedTop3 ==
    /\ RankedTop3(ict_last, MinIctCandles)
    /\ RankedTop3(smc_last, MinSmcCandles)

\* A call of the ICT detector whose steps raised four signals of four
\* types, the weakest first: the other three are returned, and the weakest
\* is left out.
C19_Witness ==
    /\ ict_last.outcome = "returned"
    /\ Len(ict_last.raised) = 4
    /\ \A j, k \in 1..4 : j # k => ict_last.raised[j].signal_type # ict_last.raised[k].signal_type
    /\ \A k \in 2..4 : RankKey(ict_last.raised[1]) < RankKey(ict_last.raised[k])
    /\ ict_last.signals = <<ict_last.raised[2], ict_last.raised[3], ict_last.raised[4]>>

(***************************************************************************)
(* Break of structure and broken order blocks.                             *)
(***************************************************************************)
\* The order blocks of one type not marked broken when the market-structure
\* step of the last call ran (the breaker scan of the call comes after it).
UnbrokenAtStructure(type) ==
    SelectSeq(ict_last.blocks_at_scan, LAMBDA b : b.type = type /\ ~b.broken)

BrokenAtStructure(type) ==
    SelectSeq(ict_last.blocks_at_scan, LAMBDA b : b.type = type /\ b.broken)

BosReturned(type) ==
    {k \in 1..Len(ict_last.signals) : ict_last.signals[k].signal_type = type}

\* C20: a returned BOS_BULLISH signal has a swing high at least 0.1% above
\* the highest bearish order block still unbroken, broken blocks left out
\* of the comparison; a returned BOS_BEARISH signal has a swing low at least
\* 0.1% below the lowest unbroken bullish order block.
C20_Original ==
    ict_last.outcome = "returned" =>
        /\ \A k \in BosReturned("bos_bullish") :
               LET unbroken == UnbrokenAtStructure("bearish")
               IN  /\ unbroken # <<>>
                   /\ 1000 * ict_last.signals[k].price
                          >= 1001 * SeqMax([i \in 1..Len(unbroken) |-> unbroken[i].high])
        /\ \A k \in BosReturned("bos_bearish") :
               LET unbroken == UnbrokenAtStructure("bullish")
               IN  /\ unbroken # <<>>
                   /\ 1000 * ict_last.signals[k].price
                          <= 999 * SeqMin([i \in 1..Len(unbroken) |-> unbroken[i].low])

\* A BOS_BULLISH signal returned by a call that held bearish order blocks,
\* every one of them already broken by an earlier call.
C20_Witness ==
    /\ ict_last.outcome = "returned"
    /\ BosReturned("bos_bullish") # {}
    /\ UnbrokenAtStructure("bearish") = <<>>
    /\ BrokenAtStructure("bearish") # <<>>
    /\ market_structure.bos_confirmed

(***************************************************************************)
(* A swing with no order block of the opposite type.                       *)
(***************************************************************************)
\* The last ten candles of the last call, as _analyze_market_structure
\* scans them.
LastRecentData == df_tail(ict_last.candles, 10)

\* The last call met a swing high while it held order blocks but no bearish
\* one, or a swing low while it held order blocks but no bullish one.
SwingWithoutOpposite ==
    /\ Len(ict_last.candles) >= MinIctCandles
    /\ Len(ict_last.blocks_at_scan) > 0
    /\ \E i \in 3..(Len(LastRecentData) - 2) :
          \/ /\ IsSwingHigh(LastRecentData, i)
             /\ BlocksOfType(ict_last.blocks_at_scan, "bearish") = <<>>
          \/ /\ ~IsSwingHigh(LastRecentData, i)
             /\ IsSwingLow(LastRecentData, i)
             /\ BlocksOfType(ict_last.blocks_at_scan, "bullish") = <<>>

\* C21: a call of analyze_candles that meets a swing high (low) while the
\* detector holds order blocks but none of the bearish (bullish) type
\* returns normally and without a BOS signal.
C21_Original ==
    SwingWithoutOpposite =>
        /\ ict_last.outcome = "returned"
        /\ BosReturned("bos_bullish") = {}
        /\ BosReturned("bos_bearish") = {}

\* Such a call, ended by the ValueError of max() / min() of an empty list.
C21_Witness ==
    /\ SwingWithoutOpposite
    /\ ict_last.outcome = "ValueError"
    /\ ict_last.signals = <<>>

(***************************************************************************)
(* time_remaining and time_until_next of get_current_kill_zone.            *)
(***************************************************************************)
\* The length of a zone's window in minutes.
WindowMinutes(zone_type) ==
    LET z == KILL_ZONES[ZoneEntry(zone_type)]
    IN  ((z.end - z.start) % 86400) \div 60

CurrentKillZoneDone == kz_pc \in {"get_current_kill_zone", "should_trade_signal"}

\* C29: get_current_kill_zone sets exactly one of time_remaining and
\* time_until_next (None is held as -1): an active zone has
\* 0 <= time_remaining <= the length of its window (120, 120, 60, 240
\* minutes), an inactive result has 0 < time_until_next <= 1440.
C29_Original ==
    CurrentKillZoneDone =>
        IF cur_info.is_active
        THEN /\ cur_info.time_until_next = -1
             /\ 0 <= cur_info.time_remaining
             /\ cur_info.time_remaining <= WindowMinutes(cur_info.zone_type)
        ELSE /\ cur_info.time_remaining = -1
             /\ 0 < cur_info.time_until_next
             /\ cur_info.time_until_next <= 1440

\* Midnight of the UTC-5 clock: the Asian session is reported active with a
\* full day remaining.
C29_Witness ==
    /\ CurrentKillZoneDone
    /\ est_time(ts) = 0
    /\ cur_info.is_active
    /\ cur_info.zone_type = "asian_session"
    /\ cur_info.time_remaining = 1440

\* The reads of the call that its result depends on (the two of an active
\* zone, those of _get_next_kill_zone otherwise) gave one and the same date.
C29_OneDate ==
    IF cur_info.is_active THEN kz_today[1] = kz_today[2]
    ELSE \A i \in 2..MaxReads : kz_today[i] = kz_today[2]

\* What holds of the two fields at every timestamp and for all dates read:
\* exactly one is set and it is not negative.
C29_ExactlyOne ==
    CurrentKillZoneDone =>
        IF cur_info.is_active
        THEN /\ cur_info.time_until_next = -1
             /\ 0 <= cur_info.time_remaining
        ELSE /\ cur_info.time_remaining = -1
             /\ 0 <= cur_info.time_until_next

\* What holds of them at every timestamp when the host's date does not
\* change between the reads.
C29_BoundsOnOneDate ==
    (CurrentKillZoneDone /\ C29_OneDate) =>
        IF cur_info.is_active
        THEN \/ cur_info.time_remaining <= WindowMinutes(cur_info.zone_type)
             \/ est_time(ts) = 0
        ELSE cur_info.time_until_next <= 1440

\* The host's date changes between the reads of lines 128 and 140: the
\* London kill zone at 03:30 is reported with a day and 90 minutes remaining.
C29_DateChangesInZone ==
    /\ CurrentKillZoneDone
    /\ est_time(ts) = 3 * 3600 + 1800
    /\ kz_today[1] < kz_today[2]
    /\ cur_info.zone_type = "london_kill_zone"
    /\ cur_info.time_remaining = 1530

\* The host's date changes before the reads of line 208: at 01:00 the next
\* zone is reported a day and 120 minutes away.
C29_DateChangesOffHours ==
    /\ CurrentKillZoneDone
    /\ est_time(ts) = 3600
    /\ kz_today[2] < kz_today[3]
    /\ cur_info.zone_type = "off_hours"
    /\ cur_info.time_until_next = 1560

(***************************************************************************)
(* The broken and breaker_confirmed flags over the detector's lifetime.    *)
(***************************************************************************)
\* The order blocks a step marks broken: broken after it, and new or
\* unbroken before it.
NewlyBroken ==
    {i \in 1..Len(order_blocks') :
        /\ order_blocks'[i].broken
        /\ ~(i <= Len(order_blocks) /\ order_blocks[i].broken)}

\* C30: in every state broken = breaker_confirmed for every order block; no
\* call takes either flag of an existing block from True back to False;
\* and a call raises exactly one breaker signal for each block it marks
\* broken, so none for a block that was broken before the call and at most
\* one per block over the detector's lifetime.
C30_BreakerOnce ==
    /\ [](\A i \in 1..Len(order_blocks) :
             order_blocks[i].broken = order_blocks[i].breaker_confirmed)
    /\ [][/\ \A i \in 1..Len(order_blocks) :
               /\ i <= Len(order_blocks')
               /\ order_blocks[i].broken => order_blocks'[i].broken
               /\ order_blocks[i].breaker_confirmed => order_blocks'[i].breaker_confirmed
           /\ Len(ict_last'.breaker_results) = Cardinality(NewlyBroken)]_vars

\* A second call whose scan passes a bearish block that an earlier call
\* marked broken, the close still above it, and raises nothing for it.
C30_Witness ==
    /\ ict_calls = 2
    /\ ict_last.scanned
    /\ \E i \in 1..Len(ict_last.blocks_at_scan) :
          /\ InScanWindow(i)
          /\ ict_last.blocks_at_scan[i].broken
          /\ ict_last.blocks_at_scan[i].type = "bearish"
          /\ ict_last.current_price > ict_last.blocks_at_scan[i].high
    /\ ict_last.breaker_results = <<>>

(***************************************************************************)
(* The phase-1 bonus.                                                      *)
(***************************************************************************)
Phase1Done == fn_pc = "calculate_phase1_enhancement"

\* The kill-zone part (multiplier - 1) * 100 of a call, from the table.
KzPart ==
    LET kz == get_kill_zone_info(fn_in.an.last_ts)
    IN  IF kz.is_active THEN kz_bonus_of(kz.strength_multiplier) ELSE DZero

\* C25: calculate_phase1_enhancement returns a bonus between 0 and 40; with
\* a neutral preliminary direction the bonus is the kill-zone part alone
\* (premium/discount and sweep parts 0, no rationale for them); and with an
\* empty candle list it returns 0 and an empty rationale.
C25_BonusRange ==
    Phase1Done =>
        /\ DLe(DZero, fn_out.bonus)
        /\ DLe(fn_out.bonus, Pts(40))
        /\ (fn_in.n > 0 /\ fn_in.recommendation = "neutral") =>
               /\ fn_out.bonus = KzPart
               /\ \A k \in 1..Len(fn_out.rationale) : fn_out.rationale[k] = "Kill Zone"
        /\ fn_in.n = 0 => (fn_out.bonus = DZero /\ fn_out.rationale = <<>>)

\* A buy in the OTE band during london_open after a strong bullish sweep:
\* 30.000000000000004 + 20 + 23.75 points, returned as 40.
C25_Witness ==
    /\ Phase1Done
    /\ fn_in.recommendation = "buy"
    /\ KzPart = kz_bonus_of(130)
    /\ fn_out.rationale = <<"Kill Zone", "PD Array", "Liquidity Sweep">>
    /\ fn_out.bonus = Pts(40)

(***************************************************************************)
(* The ICT/SMC confluence bonus of the AI scorer.                          *)
(***************************************************************************)
ConfluenceDone == fn_pc = "_calculate_confluence_bonus"

AnyBullish(signals) == \E i \in 1..Len(signals) : HasBullishTag(signals[i].signal_type)

AnyBearish(signals) == \E i \in 1..Len(signals) : HasBearishTag(signals[i].signal_type)

\* The two detectors agree on a direction / point in opposite directions.
DirectionsAgree ==
    \/ AnyBullish(fn_in.ict_signals) /\ AnyBullish(fn_in.smc_signals)
    \/ AnyBearish(fn_in.ict_signals) /\ AnyBearish(fn_in.smc_signals)

DirectionsConflict ==
    \/ AnyBullish(fn_in.ict_signals) /\ AnyBearish(fn_in.smc_signals)
    \/ AnyBearish(fn_in.ict_signals) /\ AnyBullish(fn_in.smc_signals)

ManySignals == IF Len(fn_in.ict_signals) >= 2 /\ Len(fn_in.smc_signals) >= 1 THEN 5 ELSE 0

\* C26: the confluence bonus is 0 when either list is empty; otherwise it is
\* -5 for conflicting directions, never with the +12 of an agreement, +12
\* for agreeing directions, plus 5 for at least 2 ICT and 1 SMC signals,
\* clamped to [0, 20].
C26_Original ==
    ConfluenceDone =>
        fn_out.bonus =
            IF fn_in.ict_signals = <<>> \/ fn_in.smc_signals = <<>> THEN 0
            ELSE Max(0, Min(20, (IF DirectionsConflict THEN -5
                                 ELSE IF DirectionsAgree THEN 12 ELSE 0) + ManySignals))

\* ICT signals of both directions against a bearish SMC signal: the
\* directions conflict and the bonus is 12 + 5.
C26_Witness ==
    /\ ConfluenceDone
    /\ DirectionsConflict
    /\ DirectionsAgree
    /\ fn_out.bonus = 17

\* What holds: an agreement comes before a conflict.
C26_AgreementFirst ==
    ConfluenceDone =>
        /\ 0 <= fn_out.bonus /\ fn_out.bonus <= 20
        /\ fn_out.bonus =
            IF fn_in.ict_signals = <<>> \/ fn_in.smc_signals = <<>> THEN 0
            ELSE Max(0, Min(20, (IF DirectionsAgree THEN 12
                                 ELSE IF DirectionsConflict THEN -5 ELSE 0) + ManySignals))

(***************************************************************************)
(* SMCStrategies: inducement candles.                                      *)
(***************************************************************************)
SmcCalled == smc_calls > 0 /\ smc_last.analyzed

\* The candles the inducement scan looks at: the last three.
ScannedCandles == df_tail(smc_last.candles, 3)

LongLowerWick(candle) ==
    /\ Min(candle.o, candle.c) - candle.l > 2 * Abs(candle.c - candle.o)
    /\ candle.c > candle.o

LongUpperWick(candle) ==
    /\ candle.h - Max(candle.o, candle.c) > 2 * Abs(candle.c - candle.o)
    /\ candle.c < candle.o

RaisedSmc(sig) ==
    \E i \in 1..Len(smc_last.raised) :
        /\ smc_last.raised[i].signal_type = sig.signal_type
        /\ smc_last.raised[i].strength = sig.strength
        /\ smc_last.raised[i].confidence = sig.confidence

\* C22: a call on at least 30 candles with a scanned candle whose lower
\* wick is more than twice its body and which closes above its open returns
\* normally and raises INDUCEMENT_BULLISH with strength 75 and confidence
\* 70; likewise INDUCEMENT_BEARISH for an upper wick and a close below the
\* open.
C22_Original ==
    SmcCalled =>
        /\ (\E i \in 1..Len(ScannedCandles) : LongLowerWick(ScannedCandles[i]))
               => smc_last.outcome = "returned" /\ RaisedSmc(Sig("inducement_bullish", 75, 70))
        /\ (\E i \in 1..Len(ScannedCandles) : LongUpperWick(ScannedCandles[i]))
               => smc_last.outcome = "returned" /\ RaisedSmc(Sig("inducement_bearish", 75, 70))

\* A call whose last candle has the long lower wick left with a NameError,
\* after the inducement was appended to the detector's list.
C22_Witness ==
    /\ SmcCalled
    /\ LongLowerWick(smc_last.candles[Len(smc_last.candles)])
    /\ smc_last.outcome = "NameError"
    /\ smc_last.signals = <<>>
    /\ inducements # <<>>
    /\ inducements[Len(inducements)].direction = "bullish"

\* What holds: a call leaves with a NameError exactly when a scanned candle
\* is an inducement candle, and no inducement signal is ever raised.
C22_NameError ==
    SmcCalled =>
        /\ smc_last.outcome = "NameError" <=>
               \E i \in 1..Len(ScannedCandles) :
                   LongLowerWick(ScannedCandles[i]) \/ LongUpperWick(ScannedCandles[i])
        /\ ~RaisedSmc(INDUCEMENT_BULLISH) /\ ~RaisedSmc(INDUCEMENT_BEARISH)

(***************************************************************************)
(* SMCStrategies: liquidity pools are kept apart.                          *)
(***************************************************************************)
\* The levels of the equal-high (buy_side) or equal-low (sell_side) pairs
\* in the 20-candle window of the last call.
EqualPairLevels(type) ==
    LET values == PoolValues(df_tail(smc_last.candles, PoolWindow), type)
    IN  {values[i] : i \in {k \in 1..Len(values) :
                               \E j \in (k + 1)..Len(values) :
                                   Abs(values[k] - values[j]) * 1000 < values[k]}}

\* C23: no two pools of one type have levels that differ by less than 0.1%
\* of the level of the one added later.
C23_PoolsApart ==
    \A i \in 1..Len(liquidity_pools), j \in 1..Len(liquidity_pools) :
        (i < j /\ liquidity_pools[i].type = liquidity_pools[j].type)
            => Abs(liquidity_pools[i].price_level - liquidity_pools[j].price_level) * 1000
                   >= liquidity_pools[j].price_level

\* A second call met an equal-high pair at a level for which no pool
\* exists, because a buy_side pool one point away was held already.
C23_Witness ==
    /\ smc_calls = 2
    /\ smc_last.analyzed
    /\ \E level \in EqualPairLevels("buy_side") :
          /\ \A p \in 1..Len(liquidity_pools) :
                liquidity_pools[p].type = "buy_side" => liquidity_pools[p].price_level # level
          /\ \E p \in 1..Len(liquidity_pools) :
                /\ liquidity_pools[p].type = "buy_side"
                /\ Abs(liquidity_pools[p].price_level - level) = 1

(***************************************************************************)
(* SMCStrategies: which candle sweeps a pool.                              *)
(***************************************************************************)
\* Pool p was marked swept by the last call.
NewlySwept(p) ==
    /\ liquidity_pools[p].swept
    /\ ~smc_last.pools_at_sweep[p].swept

\* The candle reaches at least 0.1% beyond the level of the pool.
Beyond(candle, pool) ==
    IF pool.type = "buy_side"
    THEN candle.h * 1000 >= pool.price_level * 1001
    ELSE candle.l * 1000 <= pool.price_level * 999

LastClose == smc_last.candles[Len(smc_last.candles)].c

Rejected(pool) ==
    IF pool.type = "buy_side" THEN LastClose < pool.price_level
    ELSE LastClose > pool.price_level

SweepSignalOf(pool) ==
    IF pool.type = "buy_side" THEN LIQUIDITY_SWEEP_BEARISH ELSE LIQUIDITY_SWEEP_BULLISH

\* C24: a pool is marked swept (subsequent_rejection set, a sweep signal of
\* strength 85 and confidence 80 raised) only when a candle later than the
\* pool's timestamp reaches at least 0.1% beyond its level and the current
\* close is back on the other side.
C24_Original ==
    SmcCalled =>
        \A p \in 1..Len(liquidity_pools) :
            NewlySwept(p) =>
                /\ liquidity_pools[p].subsequent_rejection
                /\ Rejected(liquidity_pools[p])
                /\ \E k \in 1..Len(smc_last.candles) :
                      /\ smc_last.candles[k].t > liquidity_pools[p].timestamp
                      /\ Beyond(smc_last.candles[k], liquidity_pools[p])

\* A pool whose timestamp is that of the last candle was marked swept by
\* the call that created it, and its sweep signal was raised.
C24_Witness ==
    /\ SmcCalled
    /\ \E p \in 1..Len(liquidity_pools) :
          /\ NewlySwept(p)
          /\ liquidity_pools[p].timestamp = smc_last.candles[Len(smc_last.candles)].t
          /\ liquidity_pools[p].sweep_timestamp = liquidity_pools[p].timestamp
          /\ \E i \in 1..Len(smc_last.sweep_results) :
                smc_last.sweep_results[i].signal_type = SweepSignalOf(liquidity_pools[p]).signal_type

\* What holds: the pools a call marks swept are the unswept ones for which
\* one of the last five candles, whatever its time, lies beyond the level
\* and the close is back; each gives one signal of strength 85, confidence 80.
C24_LastFive ==
    SmcCalled =>
        /\ \A p \in 1..Len(liquidity_pools) :
              NewlySwept(p) <=>
                  /\ Rejected(liquidity_pools[p])
                  /\ sweeps_pool(df_tail(smc_last.candles, SweepWindow), LastClose,
                                 smc_last.pools_at_sweep[p])
        /\ Len(smc_last.sweep_results)
              = Cardinality({p \in 1..Len(liquidity_pools) : NewlySwept(p)})
        /\ \A i \in 1..Len(smc_last.sweep_results) :
              smc_last.sweep_results[i].strength = 85 /\ smc_last.sweep_results[i].confidence = 80

(***************************************************************************)
(* Detector state is append-only.                                          *)
(***************************************************************************)
\* Every element of the list before the step is still at its place after
\* it, with the named fields as they were.
Kept(before, after, fields) ==
    /\ Len(after) >= Len(before)
    /\ \A i \in 1..Len(before) : \A f \in fields : after[i][f] = before[i][f]

AppendOnlyStep ==
    /\ Kept(order_blocks, order_blocks', {"high", "low", "timestamp", "type", "confirmed"})
    /\ Kept(fair_value_gaps, fair_value_gaps',
            {"high", "low", "start_timestamp", "end_timestamp", "direction", "filled"})
    /\ Kept(liquidity_pools, liquidity_pools', {"price_level", "type", "timestamp", "sweep_count"})
    /\ Kept(inducements, inducements',
            {"direction", "inducement_price", "reversal_price", "timestamp",
             "wick_percentage", "confirmed"})
    /\ Kept(bpr_zones, bpr_zones',
            {"high", "low", "start_timestamp", "end_timestamp", "equilibrium_price", "confirmed"})

\* A call with fewer candles than the detector's minimum.
ShortIctCall == ict_calls' = ict_calls + 1 /\ Len(ict_last'.candles) < MinIctCandles

ShortSmcCall == smc_calls' = smc_calls + 1 /\ Len(smc_last'.candles) < MinSmcCandles

\* C27: over any sequence of analyze_candles calls the lists of order
\* blocks, fair value gaps, liquidity pools, inducements and balanced price
\* ranges never lose an element, the levels, type and timestamp of an
\* element never change (only broken, breaker_confirmed and the swept flags
\* may), and a call below the minimum number of candles changes nothing.
C27_AppendOnly ==
    [][/\ AppendOnlyStep
       /\ ShortIctCall => UNCHANGED <<order_blocks, fair_value_gaps, market_structure>>
       /\ ShortSmcCall => UNCHANGED <<liquidity_pools, inducements, bpr_zones>>]_vars

\* After two calls: a balanced price range kept from the first call and a
\* pool marked swept by the second, or a broken order block next to fair
\* value gaps.
C27_Witness ==
    /\ ict_calls + smc_calls = 2
    /\ \/ /\ smc_calls = 2
          /\ bpr_zones # <<>>
          /\ \A i \in 1..Len(smc_last.raised) :
                smc_last.raised[i].signal_type \in {"liquidity_sweep_bullish", "liquidity_sweep_bearish"}
          /\ \E p \in 1..Len(liquidity_pools) :
                /\ liquidity_pools[p].swept
                /\ ~smc_last.pools_at_sweep[p].swept
                /\ liquidity_pools[p].sweep_timestamp > liquidity_pools[p].timestamp
       \/ /\ ict_calls = 2
          /\ \E b \in 1..Len(order_blocks) : order_blocks[b].broken
          /\ fair_value_gaps # <<>>

(***************************************************************************)
(* generate_signal called twice in succession with the same arguments.     *)
(***************************************************************************)
\* Calls k and k + 1 on the engine are both calls of generate_signal, with
\* the same candle series at the same time.
SameTwice(k) ==
    /\ k + 1 <= Len(rp_calls)
    /\ rp_calls[k].op = "generate_signal"
    /\ rp_calls[k + 1].op = "generate_signal"
    /\ rp_calls[k + 1].rq = rp_calls[k].rq

CalledTwice == SameTwice(1)

\* C28: two successive calls of generate_signal on one engine with the
\* same candle series at the same wall-clock time return the same
\* recommendation, the same strength and the same breakdown.
C28_Original ==
    \A k \in 1..(MaxRequests - 1) :
        SameTwice(k) =>
            /\ rp_calls[k + 1].response.outcome = rp_calls[k].response.outcome
            /\ rp_calls[k + 1].response.recommendation = rp_calls[k].response.recommendation
            /\ rp_calls[k + 1].response.strength = rp_calls[k].response.strength
            /\ rp_calls[k + 1].response.breakdown = rp_calls[k].response.breakdown

\* The first two calls on a new engine are such a pair.  Both returned, the
\* first with a liquidity-sweep signal of the SMC detector as its pattern,
\* the second without any SMC signal because the pool is already swept, and
\* with another strength.
C28_Witness ==
    /\ Len(rp_calls) = 2
    /\ CalledTwice
    /\ rp_calls[1].response.outcome = "returned" /\ rp_calls[2].response.outcome = "returned"
    /\ rp_calls[1].response.pattern_type \in {"liquidity_sweep_bullish", "liquidity_sweep_bearish"}
    /\ smc_last.signals = <<>>
    /\ \E p \in 1..Len(liquidity_pools) : liquidity_pools[p].swept
    /\ rp_calls[2].response.strength # rp_calls[1].response.strength

\* What holds: the breakdown, which comes from the three timeframe
\* evaluations alone, is the same both times.
C28_BreakdownRepeats ==
    \A k \in 1..(MaxRequests - 1) :
        SameTwice(k) => rp_calls[k + 1].response.breakdown = rp_calls[k].response.breakdown

=========================================================================
